---- MODULE Spec2Model ----
(***************************************************************************)
(* A model of the external-resource RPC layer of crossplane-runtime:       *)
(*   - the provider-side streaming session handler                         *)
(*     (pkg/external/server, ProviderServer.Session),                      *)
(*   - the client-side connector and session                               *)
(*     (pkg/external/client, StreamingConnector and StreamingClient),      *)
(*     also statement by statement for goroutines sharing a connector,     *)
(*   - the provider's handler registry and Discover (ProviderServer),      *)
(*   - the caching legacy unary server (LegacyServer) and the shutdown of  *)
(*     the provider server,                                                *)
(*   - Provider.Setup of the dynamic controller (pkg/controller/managed).  *)
(*                                                                         *)
(* Each component has its own specification over the one set of variables. *)
(* Unless said otherwise a handler is one atomic action.  Calls that leave *)
(* the process (a stream Send or Recv, a handler factory, an               *)
(* external-client method, a codec conversion, a dial) are modelled by the *)
(* outcome they return, which the action draws from the outcomes that call *)
(* can produce.  History variables (recvd, sent, calls, clients, ...)      *)
(* record what the handler did to its collaborators so that properties can *)
(* speak about it.                                                         *)
(***************************************************************************)
EXTENDS Integers, Sequences, FiniteSets, TLC

\* ---------------------------------------------------------------- bounds

\* Requests one server session reads from its stream before the stream ends.
MaxRequests == 3

\* Calls the reconciler side makes on one connector and its sessions.
MaxCalls == 4

\* RegisterHandler and Discover calls made on one ProviderServer.
MaxRegistrations == 4

\* Unary calls one caching LegacyServer serves.
MaxLegacyCalls == 3

\* Providers a controller configuration lists.
MaxProviders == 2

\* Keys one reconciler worker dequeues.
MaxReconciles == 2

\* Calls of GetOrCreateConnector and Close one ConnectorManager gets.
MaxManagerCalls == 3

\* Predicates one StoppableSource is configured with.
MaxPredicates == 2

\* Starts, stops and informer events one StoppableSource sees.
MaxSourceSteps == 3

\* Registrations and lookups the goroutines of one ProviderServer begin.
MaxRegistryOps == 3

\* Calls of getOrCreateClient the goroutines of one LegacyServer begin.
MaxCacheCalls == 3

\* Unary calls one non-caching LegacyServer serves.
MaxUnaryCalls == 3

\* The requests one stream's session handles.
MaxStreamRequests == 2

\* Connect calls made on the connectors a manager returned.
MaxConnectChecks == 1

\* ------------------------------------------------------------- universes

\* The zero schema.GroupVersionKind: what a request carries when apiVersion
\* or kind is absent, and the initial value of the session's resourceType.
NoKind == "<none>"

\* Kinds the server's runtime.Scheme can instantiate (scheme.New succeeds).
SchemeKinds == {"Widget", "Gadget", "Sprocket"}

\* Kinds that can appear in a request's resource: the scheme's kinds, one
\* the scheme does not know, and a resource without apiVersion/kind.
KindInputs == SchemeKinds \cup {"Gizmo", NoKind}

\* Kinds for which the provider registered a handler before serving.
RegisteredKinds == {"Widget", "Gadget"}

\* The four operations an external client offers besides Disconnect.
CrudOps == {"Observe", "Create", "Update", "Delete"}

\* No external client bound (a nil TypedExternalClient).
Nil == 0

\* The handlers (TypedExternalConnecter values) a provider can register.
Handlers == {"hA", "hB"}

\* A nil TypedExternalConnecter.
NilHandler == "nil"

\* The GroupVersionKind each kind name stands for; Sprocket is in the core
\* group, whose name is empty, and WidgetV2 is Widget at another version.
GVK(k) ==
    CASE k = "Widget"   -> [group |-> "example.org", version |-> "v1",
                            kind |-> "Widget"]
      [] k = "WidgetV2" -> [group |-> "example.org", version |-> "v2",
                            kind |-> "Widget"]
      [] k = "Gadget"   -> [group |-> "example.org", version |-> "v1beta1",
                            kind |-> "Gadget"]
      [] k = "Sprocket" -> [group |-> "", version |-> "v1",
                            kind |-> "Sprocket"]
      [] k = "Gizmo"    -> [group |-> "other.io", version |-> "v1",
                            kind |-> "Gizmo"]
      [] OTHER          -> [group |-> "", version |-> "", kind |-> ""]

\* --------------------------------------------------------------- state

VARIABLES
    \* ProviderServer
    handlers,        \* s.handlers: kind -> the handler registered for it
    nRegs,           \* RegisterHandler and Discover calls made so far
    lastReg,         \* the latest of them: [api, gvk, handler, result]
    discoveries,     \* the Reconcilers lists the Discover calls returned
                     \* since the latest RegisterHandler call, in order
    \* one ProviderServer.Session invocation (its stack variables)
    phase,           \* "running" while in the loop, "returned" after return
    retErr,          \* the error Session returned ("none" while running)
    connected,       \* connected
    resourceType,    \* resourceType
    externalClient,  \* externalClient: index into clients, or Nil
    ctxDone,         \* stream.Context() is cancelled
    \* what the session did to its collaborators
    recvd,           \* requests stream.Recv() delivered, in order:
                     \*   [op: the variant, kind: its resource's kind,
                     \*    decodes: fromProtoStruct accepts the resource]
    sent,            \* response variants stream.Send() accepted, in order
    clients,         \* external clients the factories returned:
                     \*   [kind: the handler's kind, closed: Disconnect calls]
    calls,           \* CRUD calls made on external clients, in order
    factoryCalls,    \* number of handler-factory Connect invocations
    \* one StreamingConnector
    conn,            \* c.conn: index into transports, or Nil
    gvkMap,          \* c.gvkMap: the allowed kinds (empty: any kind)
    \* the StreamingClients its Connect returned
    sessions,        \* [gvk: c.gvk, stream: "open" or "nil" (c.stream),
                     \*  broken: a send or receive on the stream failed,
                     \*          after which gRPC fails every send on it]
    \* what the connector and the sessions did to their collaborators
    transports,      \* gRPC connections the factory dialled: "open"/"closed"
    closeReturned,   \* Connector.Close() has returned
    sendAttempts,    \* stream.Send calls made by sessions after Connect
    lastExchange,    \* the reply to the latest Connect or CRUD call
    nCalls,          \* calls made so far
    lastCall,        \* the latest call: [api, sess, kind, result]
    \* goroutines calling into the connector at the same time
    mu,              \* c.mu: the goroutine holding it, or Unlocked
    pc,              \* per goroutine: the statement it is at
    inCall,          \* per goroutine: the call it is in, [api, kind]
    \* one caching LegacyServer and the gRPC server it is registered with
    connections,     \* s.connections: connection key -> index into
                     \*   legacyClients
    legacyClients,   \* external clients its handler factories returned:
                     \*   [name, kind: the resource it was connected for,
                     \*    disconnects: Disconnect calls made on it]
    stopped,         \* grpcServer.GracefulStop() has been called
    nLegacy,         \* unary calls served so far
    lastLegacy,      \* the latest: [op, name, kind, key, result]
    \* one Provider of the dynamic controller and its Setup call
    resourceTypes,   \* p.config.ResourceTypes: [apiVersion, kind] records
    configured,      \* the resource types of the configuration as given
    setupPc,         \* "new", "controllers" (in the loop), "done"
    discoverErr,     \* what Setup's Discover call returned ("none" before)
    discoveredTypes, \* discoveredTypes: the types that call returned
    started,         \* controllers started with the engine, in order:
                     \*   [name, type]
    setupErr,        \* what Setup returned ("none" before it returns)
    \* the start of the dynamic controller from a configuration
    config,          \* config.Providers: [name, endpoint] records
    validateErr,     \* what ValidateConfig(config) returned, once called
    buildErr,        \* what Build returned ("none" before it returns)
    managerCreated,  \* ctrl.NewManager has returned a manager
    providersCreated,\* NewProvider calls that returned a Provider, each
                     \*   with its connector
    \* one worker of a managed-resource reconciler
    object,          \* what store.Get found for the dequeued key
    recPc,           \* where the worker is in the reconcile
    recCalls,        \* the connector and session calls of this reconcile
    observation,     \* what Observe returned, Nil before it has
    recFailed,       \* the step of this reconcile that failed, or "none"
    nReconciles,     \* the number of keys dequeued so far
    \* one ConnectorManager, its connectors and its callers
    mgrMu,           \* the goroutine that holds m.mu, or Unlocked
    mgrPc,           \* where each goroutine is in its call on the manager
    connectors,      \* m.connectors: endpoint -> connector
    instances,       \* every StreamingConnector the manager has created
    returned,        \* what the GetOrCreateConnector calls have returned
    nMgrCalls,       \* the number of calls begun so far
    connPc,          \* where each caller is in Connect on a connector
    checks,          \* what the kind checks of the Connects have found
    \* one StoppableSource, its informer and its event handler
    reg,             \* s.reg: the handler's registration, if any
    informerStopped, \* what s.inf.IsStopped() returns
    predicates,      \* s.predicates
    removeCalls,     \* the RemoveEventHandler calls made so far
    removeErr,       \* what the last RemoveEventHandler call returned
    stopResult,      \* what the last Stop returned
    lastEvent,       \* the last event the informer delivered
    handled,         \* the calls of the event handler so far
    queueLen,        \* the requests the handler has enqueued
    sourceOp,        \* the last call on the source or its handler
    nSourceSteps,    \* the number of starts, stops and events so far
    informerRegs,    \* the source's registrations live on the informer
    \* the handler registry's lock and the goroutines that use the map
    regMu,           \* s.mu: its writer, if any, and its readers
    regPc,           \* where each goroutine is in its use of the registry
    mapWriting,      \* the kind whose map assignment is under way, if any
    lookups,         \* the reads of the handlers map made so far
    nRegistryOps,    \* the number of registry uses begun so far
    \* the caching legacy server's connections map and its callers
    cacheMu,         \* the goroutine that holds s.mu for writing
    cachePc,         \* where each goroutine is in getOrCreateClient
    cache,           \* s.connections: key -> external client
    cacheConnects,   \* the handler Connect calls made, with their outcome
    cacheReturned,   \* what the getOrCreateClient calls have returned
    nCacheCalls,     \* the number of calls begun so far
    \* the legacy server without cache
    ephemeral,       \* the external clients its calls have connected
    lastUnary,       \* its last call and what it returned
    nUnaryCalls,     \* the number of calls served so far
    \* the provider's gRPC server and the streams it serves
    startCtx,        \* the context given to ProviderBuilder.Start
    grpcServer,      \* "serving", "stopping" (in GracefulStop), "stopped"
    streams          \* each stream's Session call: where it is, its client

serverVars == <<handlers, phase, retErr, connected, resourceType,
                externalClient, ctxDone, recvd, sent, clients, calls,
                factoryCalls>>

clientVars == <<conn, gvkMap, sessions, transports, closeReturned,
                sendAttempts, lastExchange, nCalls, lastCall>>

threadVars == <<mu, pc, inCall>>

registryVars == <<nRegs, lastReg, discoveries>>

legacyVars == <<connections, legacyClients, stopped, nLegacy, lastLegacy>>

setupVars == <<resourceTypes, configured, setupPc, discoverErr,
               discoveredTypes, started, setupErr>>

startupVars == <<config, validateErr, buildErr, managerCreated,
                 providersCreated>>

reconcileVars == <<object, recPc, recCalls, observation, recFailed,
                   nReconciles>>

connectVars == <<connPc, checks>>

managerVars == <<mgrMu, mgrPc, connectors, instances, returned, nMgrCalls,
                 connectVars>>

sourceVars == <<reg, informerStopped, predicates, removeCalls, removeErr,
                stopResult, lastEvent, handled, queueLen, sourceOp,
                nSourceSteps, informerRegs>>

\* The variables of the dynamic controller's other parts.
lockVars == <<regMu, regPc, mapWriting, lookups, nRegistryOps>>

\* The variables of the goroutines that share a server's or a client's
\* state.
cacheVars == <<cacheMu, cachePc, cache, cacheConnects, cacheReturned,
               nCacheCalls>>

unaryVars == <<ephemeral, lastUnary, nUnaryCalls>>

shutdownVars == <<startCtx, grpcServer, streams>>

processVars == <<lockVars, cacheVars, unaryVars, shutdownVars>>

dynamicVars == <<startupVars, reconcileVars, managerVars, sourceVars,
                 processVars>>

\* The stack variables of a session and the record of what it did.
sessionVars == <<phase, retErr, connected, resourceType, externalClient,
                 ctxDone, recvd, sent, clients, calls, factoryCalls>>

\* What the server session's actions leave alone.
nonServerVars ==
    <<clientVars, threadVars, registryVars, legacyVars, setupVars,
      dynamicVars>>

\* What the connector's and the sessions' actions leave alone.
nonClientVars ==
    <<serverVars, threadVars, registryVars, legacyVars, setupVars,
      dynamicVars>>

\* What the goroutines' steps through the connector leave alone.
nonConnectorVars ==
    <<serverVars, registryVars, legacyVars, setupVars, dynamicVars>>

\* What RegisterHandler and Discover leave alone.
nonRegistryVars ==
    <<sessionVars, clientVars, threadVars, legacyVars, setupVars,
      dynamicVars>>

\* What the legacy server's calls and the shutdown leave alone.
nonLegacyVars ==
    <<serverVars, clientVars, threadVars, registryVars, setupVars,
      dynamicVars>>

\* What Provider.Setup leaves alone besides the connector.
nonSetupVars ==
    <<serverVars, threadVars, registryVars, legacyVars, dynamicVars>>

\* The variables of the streaming layer and of Provider.Setup.
streamingVars == <<serverVars, clientVars, threadVars, registryVars,
                   legacyVars, setupVars>>

nonStartupVars ==
    <<streamingVars, reconcileVars, managerVars, sourceVars, processVars>>

nonReconcileVars ==
    <<streamingVars, startupVars, managerVars, sourceVars, processVars>>

nonManagerVars ==
    <<streamingVars, startupVars, reconcileVars, sourceVars, processVars>>

nonSourceVars ==
    <<streamingVars, startupVars, reconcileVars, managerVars, processVars>>

\* The variables of the controller side.
controllerVars == <<startupVars, reconcileVars, managerVars, sourceVars>>

\* What the users of the registry's lock leave alone: all but the
\* handlers map and their own variables.
nonLockVars == <<sessionVars, clientVars, threadVars, registryVars,
                 legacyVars, setupVars, controllerVars, cacheVars,
                 unaryVars, shutdownVars>>

nonCacheVars == <<streamingVars, controllerVars, lockVars, unaryVars,
                  shutdownVars>>

nonUnaryVars == <<streamingVars, controllerVars, lockVars, cacheVars,
                  shutdownVars>>

nonShutdownVars == <<streamingVars, controllerVars, lockVars, cacheVars,
                     unaryVars>>

vars == <<streamingVars, dynamicVars>>

\* ------------------------------------------------ server: pure helpers

\* fromProtoStruct: the error it returns for a resource of kind k whose
\* payload is wellFormed (unmarshals into a managed resource), or "ok".
FromProtoStruct(k, wellFormed) ==
    IF k = NoKind THEN "CodecNoKind"
    ELSE IF k \notin SchemeKinds \/ ~wellFormed THEN "CodecDecode"
    ELSE "ok"

\* A lookup that finds a handler for every kind.
HandlerAlwaysFound(h, k) == TRUE

\* The handler lookup of a Connect: c, ok := s.handlers[gvk].
HandlerRegistered(h, k) == k \in DOMAIN h

\* The guard left out.
NotConnectedUnchecked(isConnected, client) == FALSE

\* The guard that opens every Observe/Create/Update/Delete case.
NotConnected(isConnected, client) == ~isConnected \/ client = Nil

\* The kind check left out.
KindMismatchUnchecked(gvk, pinned) == FALSE

\* The check that the request's kind is the one pinned at Connect.
KindMismatch(gvk, pinned) == gvk # pinned

\* A Delete answered with the Update variant (a copy-paste slip).
ResponseForDeleteAsUpdate(op) == IF op = "Delete" THEN "Update" ELSE op

\* The response variant built for a handled request variant.
ResponseFor(op) == op

\* externalClient.Disconnect(ctx) on client c; its error is only logged.
DisconnectClient(cls, c) ==
    [cls EXCEPT ![c].closed = cls[c].closed + 1]

\* A Session without the deferred function.
RunDeferredNothing(isConnected, client, cls) == cls

\* The deferred function of Session, run at every return with the values
\* connected and externalClient hold at that moment.
RunDeferred(isConnected, client, cls) ==
    IF isConnected /\ client # Nil THEN DisconnectClient(cls, client) ELSE cls

\* A return statement of Session: the deferred function runs, the handler
\* is over.  isConnected, client, pinned, cls are the values at the return.
Return(err, isConnected, client, pinned, cls) ==
    /\ phase' = "returned"
    /\ retErr' = err
    /\ connected' = isConnected
    /\ externalClient' = client
    /\ resourceType' = pinned
    /\ clients' = RunDeferred(isConnected, client, cls)

\* The loop goes round: the handler's variables are as given.
Continue(isConnected, client, pinned, cls) ==
    /\ phase' = "running"
    /\ retErr' = "none"
    /\ connected' = isConnected
    /\ externalClient' = client
    /\ resourceType' = pinned
    /\ clients' = cls

\* A request as the session sees it.  Disconnect and unknown requests
\* carry no resource.
Request(op, k, dec) == [op |-> op, kind |-> k, decodes |-> dec]

\* stream.Recv() delivers a request: the loop is running, the context check
\* at its top found the context live, and the stream has a request left.
CanReceive ==
    /\ phase = "running"
    /\ ~ctxDone
    /\ Len(recvd) < MaxRequests

\* ---------------------------------------------------- server: actions

\* No RegisterHandler or Discover call has been made or recorded.
RegCall(api, gvk, h, result) ==
    [api |-> api, gvk |-> gvk, handler |-> h, result |-> result]

RegistryIdle ==
    /\ nRegs = 0
    /\ lastReg = RegCall("none", NoKind, NilHandler, "none")
    /\ discoveries = <<>>

\* The variables of Session as it enters its loop.
SessionInit ==
    /\ phase = "running"
    /\ retErr = "none"
    /\ connected = FALSE
    /\ resourceType = NoKind
    /\ externalClient = Nil
    /\ ctxDone = FALSE
    /\ recvd = <<>>
    /\ sent = <<>>
    /\ clients = <<>>
    /\ calls = <<>>
    /\ factoryCalls = 0

\* A provider that registered its handlers and serves one session.
ServerInit ==
    /\ handlers = [k \in RegisteredKinds |-> "hA"]
    /\ RegistryIdle
    /\ SessionInit

\* The stream's context is cancelled (client went away, server stopping).
CancelContext ==
    /\ phase = "running"
    /\ ~ctxDone
    /\ ctxDone' = TRUE
    /\ UNCHANGED <<handlers, phase, retErr, connected, resourceType,
                   externalClient, recvd, sent, clients, calls, factoryCalls>>
    /\ UNCHANGED nonServerVars

\* case <-ctx.Done(): return ctx.Err()
ReturnCtxDone ==
    /\ phase = "running"
    /\ ctxDone
    /\ Return("Cancelled", connected, externalClient, resourceType, clients)
    /\ UNCHANGED <<handlers, ctxDone, recvd, sent, calls, factoryCalls>>
    /\ UNCHANGED nonServerVars

\* stream.Recv() fails: EOF, a transport error, or a cancellation that
\* arrived after the context check.
RecvError ==
    /\ phase = "running"
    /\ Return("StreamRecv", connected, externalClient, resourceType, clients)
    /\ UNCHANGED <<handlers, ctxDone, recvd, sent, calls, factoryCalls>>
    /\ UNCHANGED nonServerVars

\* case *v1alpha1.Request_Connect.  k is the kind of the request's resource;
\* fail names the first collaborator call that fails, if the handler gets
\* that far: "decode" (json.Unmarshal in fromProtoStruct), "connect" (the
\* handler factory), "encode" (common.AsStruct), "send" (stream.Send).
HandleConnect(k, fail) ==
    LET d   == FromProtoStruct(k, fail # "decode")
        id  == Len(clients) + 1
        cls == Append(clients, [kind |-> k, closed |-> 0])
    IN
    /\ CanReceive
    /\ recvd' = Append(recvd, Request("Connect", k, d = "ok"))
    /\ UNCHANGED <<handlers, ctxDone, calls>>
    /\ UNCHANGED nonServerVars
    /\ IF d # "ok" THEN
           /\ Return(d, connected, externalClient, resourceType, clients)
           /\ UNCHANGED <<sent, factoryCalls>>
       ELSE IF ~HandlerRegistered(handlers, k) THEN
           /\ Return("HandlerNotFound", connected, externalClient,
                     resourceType, clients)
           /\ UNCHANGED <<sent, factoryCalls>>
       ELSE
           /\ factoryCalls' = factoryCalls + 1
           /\ IF fail = "connect" THEN
                  /\ Return("ConnectFailed", connected, externalClient,
                            resourceType, clients)
                  /\ UNCHANGED sent
              ELSE IF fail = "encode" THEN
                  /\ Return("CodecEncode", TRUE, id, k, cls)
                  /\ UNCHANGED sent
              ELSE IF fail = "send" THEN
                  /\ Return("StreamSend", TRUE, id, k, cls)
                  /\ UNCHANGED sent
              ELSE
                  /\ Continue(TRUE, id, k, cls)
                  /\ sent' = Append(sent, ResponseFor("Connect"))

\* case *v1alpha1.Request_Observe / _Create / _Update / _Delete: the four
\* cases have the same shape.  fail: "decode", "call" (the external
\* client's method returns an error), "encode", "send".
HandleCrud(op, k, fail) ==
    LET d == FromProtoStruct(k, fail # "decode")
        call == [client |-> externalClient, method |-> op, kind |-> k,
                 failed |-> fail = "call"]
    IN
    /\ CanReceive
    /\ recvd' = Append(recvd, Request(op, k, d = "ok"))
    /\ UNCHANGED <<handlers, ctxDone, factoryCalls>>
    /\ UNCHANGED nonServerVars
    /\ IF NotConnected(connected, externalClient) THEN
           /\ Return("ProtoPreconnect", connected, externalClient,
                     resourceType, clients)
           /\ UNCHANGED <<sent, calls>>
       ELSE IF d # "ok" THEN
           /\ Return(d, connected, externalClient, resourceType, clients)
           /\ UNCHANGED <<sent, calls>>
       ELSE IF KindMismatch(k, resourceType) THEN
           /\ Return("ProtoKindMismatch", connected, externalClient,
                     resourceType, clients)
           /\ UNCHANGED <<sent, calls>>
       ELSE
           /\ calls' = Append(calls, call)
           /\ IF fail = "call" THEN
                  /\ Return("HandlerError", connected, externalClient,
                            resourceType, clients)
                  /\ UNCHANGED sent
              ELSE IF fail = "encode" THEN
                  /\ Return("CodecEncode", connected, externalClient,
                            resourceType, clients)
                  /\ UNCHANGED sent
              ELSE IF fail = "send" THEN
                  /\ Return("StreamSend", connected, externalClient,
                            resourceType, clients)
                  /\ UNCHANGED sent
              ELSE
                  /\ Continue(connected, externalClient, resourceType, clients)
                  /\ sent' = Append(sent, ResponseFor(op))

HandleObserve(k, fail) == HandleCrud("Observe", k, fail)

HandleCreate(k, fail) == HandleCrud("Create", k, fail)

HandleUpdate(k, fail) == HandleCrud("Update", k, fail)

\* A server that closes the bound client once it has answered a Delete.
HandleDeleteAutoClose(k, fail) ==
    IF /\ ~NotConnected(connected, externalClient)
       /\ FromProtoStruct(k, fail # "decode") = "ok"
       /\ ~KindMismatch(k, resourceType)
       /\ fail = "none"
    THEN /\ CanReceive
         /\ recvd' = Append(recvd, Request("Delete", k, TRUE))
         /\ calls' = Append(calls, [client |-> externalClient,
                                     method |-> "Delete", kind |-> k,
                                    failed |-> FALSE])
         /\ sent' = Append(sent, ResponseFor("Delete"))
         /\ Continue(FALSE, Nil, resourceType,
                     DisconnectClient(clients, externalClient))
         /\ UNCHANGED <<handlers, ctxDone, factoryCalls>>
         /\ UNCHANGED nonServerVars
    ELSE HandleCrud("Delete", k, fail)

HandleDelete(k, fail) == HandleCrud("Delete", k, fail)

\* case *v1alpha1.Request_Disconnect: the bound client, if any, is
\* disconnected, the connection state is reset (resourceType keeps its
\* value), the response is sent, and the loop goes on.
HandleDisconnect(sendOk) ==
    LET cls == IF connected /\ externalClient # Nil
               THEN DisconnectClient(clients, externalClient)
               ELSE clients
    IN
    /\ CanReceive
    /\ recvd' = Append(recvd, Request("Disconnect", NoKind, FALSE))
    /\ UNCHANGED <<handlers, ctxDone, calls, factoryCalls>>
    /\ UNCHANGED nonServerVars
    /\ IF sendOk THEN
           /\ Continue(FALSE, Nil, resourceType, cls)
           /\ sent' = Append(sent, ResponseFor("Disconnect"))
       ELSE
           /\ Return("StreamSend", FALSE, Nil, resourceType, cls)
           /\ UNCHANGED sent

\* default: a request whose Op is none of the six variants.
HandleUnknown ==
    /\ CanReceive
    /\ recvd' = Append(recvd, Request("Unknown", NoKind, FALSE))
    /\ Return("ProtoUnknownOp", connected, externalClient, resourceType,
              clients)
    /\ UNCHANGED <<handlers, ctxDone, sent, calls, factoryCalls>>
    /\ UNCHANGED nonServerVars

ConnectFailures == {"none", "decode", "connect", "encode", "send"}

CrudFailures == {"none", "decode", "call", "encode", "send"}

ServerNext ==
    \/ CancelContext
    \/ ReturnCtxDone
    \/ RecvError
    \/ \E k \in KindInputs, f \in ConnectFailures : HandleConnect(k, f)
    \/ \E k \in KindInputs, f \in CrudFailures : HandleObserve(k, f)
    \/ \E k \in KindInputs, f \in CrudFailures : HandleCreate(k, f)
    \/ \E k \in KindInputs, f \in CrudFailures : HandleUpdate(k, f)
    \/ \E k \in KindInputs, f \in CrudFailures : HandleDelete(k, f)
    \/ \E ok \in BOOLEAN : HandleDisconnect(ok)
    \/ HandleUnknown


\* ------------------------------------------------ client: pure helpers

\* Kinds of the objects the reconciler hands to the connector and sessions.
ClientKinds == {"Widget", "Gadget"}

\* The allowed-kinds sets a connector is constructed with
\* (WithResourceTypes): none, or the one configured kind.
AllowedKindSets == {{}, {"Widget"}}

\* A connector that takes every kind whatever it was constructed with.
KindSupportedAlways(allowed, k) == TRUE

\* Connect's check that the connector can handle the resource's kind.
KindSupported(allowed, k) == allowed = {} \/ k \in allowed

\* A call and what it returned.
Call(api, sess, k, result) ==
    [api |-> api, sess |-> sess, kind |-> k, result |-> result]

\* An exchange that takes a response of any variant for the reply.
ExchangeResultAnyVariant(fail) ==
    CASE fail = "send"    -> "RPCSend"
      [] fail = "recv"    -> "RPCRecv"
      [] fail = "decode"  -> "CodecDecode"
      [] OTHER            -> "ok"

\* The outcome of a send/receive exchange for request variant op on a
\* stream: fail names the first step that fails ("send", "recv", "variant":
\* the response is another variant, "decode": common.AsManaged), if any.
ExchangeResult(fail) ==
    CASE fail = "send"    -> "RPCSend"
      [] fail = "recv"    -> "RPCRecv"
      [] fail = "variant" -> "ProtoWrongResponse"
      [] fail = "decode"  -> "CodecDecode"
      [] OTHER            -> "ok"

\* Whether a call that ended with this result leaves the stream unusable.
StreamFailed(result) == result \in {"RPCSend", "RPCRecv"}

\* What became of the reply to a call that ended with this result after
\* step fail failed: whether stream.Recv returned a response, whether its
\* variant was that of the request, and whether common.AsManaged was
\* called to write it into the caller's object.
Exchange(result, fail) ==
    [received |-> result \in {"ok", "ProtoWrongResponse", "CodecDecode"},
     matched  |-> fail # "variant",
     written  |-> result \in {"ok", "CodecDecode"}]

\* No Connect or CRUD call has been made.
NoExchange == [received |-> FALSE, matched |-> FALSE, written |-> FALSE]

CanCall == nCalls < MaxCalls

\* ---------------------------------------------------- client: actions

\* A connector as NewStreamingConnector returns it, its allowed kinds
\* apart.
ConnectorInit ==
    /\ conn = Nil
    /\ sessions = <<>>
    /\ transports = <<>>
    /\ closeReturned = FALSE
    /\ sendAttempts = 0
    /\ lastExchange = NoExchange
    /\ nCalls = 0
    /\ lastCall = Call("none", Nil, NoKind, "none")

ClientInit ==
    /\ gvkMap \in AllowedKindSets
    /\ ConnectorInit

\* StreamingConnector.Connect(ctx, mg) with mg of kind k.  fail names the
\* first collaborator call that fails, if Connect gets that far: "dial"
\* (clientFactory.NewClient), "session" (c.client.Session), "encode"
\* (common.AsStruct), then the steps of the Connect exchange.  The result
\* names the cause; Connect wraps every startSession error in
\* errSessionStartFailed.
ConnectorConnect(k, fail) ==
    LET dial == conn = Nil
        tid  == IF dial THEN Len(transports) + 1 ELSE conn
        trs  == IF dial THEN Append(transports, "open") ELSE transports
        res  == IF fail = "session" \/ trs[tid] = "closed" THEN "SessionOpen"
                ELSE IF fail = "encode" THEN "CodecEncode"
                ELSE ExchangeResult(fail)
    IN
    /\ CanCall
    /\ nCalls' = nCalls + 1
    /\ UNCHANGED <<gvkMap, closeReturned, sendAttempts>>
    /\ UNCHANGED nonClientVars
    /\ IF ~KindSupported(gvkMap, k) THEN
           /\ lastCall' = Call("Connect", Nil, k, "ConnectorUnsupportedKind")
           /\ lastExchange' = NoExchange
           /\ UNCHANGED <<conn, transports, sessions>>
       ELSE IF dial /\ fail = "dial" THEN
           /\ lastCall' = Call("Connect", Nil, k, "TransportConnect")
           /\ lastExchange' = NoExchange
           /\ UNCHANGED <<conn, transports, sessions>>
       ELSE
           /\ conn' = tid
           /\ transports' = trs
           /\ lastExchange' = Exchange(res, fail)
           /\ IF res = "ok" THEN
                  /\ sessions' = Append(sessions,
                         [gvk |-> k, stream |-> "open", broken |-> FALSE])
                  /\ lastCall' = Call("Connect", Len(sessions) + 1, k, "ok")
              ELSE
                  /\ sessions' = sessions
                  /\ lastCall' = Call("Connect", Nil, k, res)

\* StreamingConnector.Discover(ctx): connectClient dials if there is no
\* connection, then the unary Discover RPC is made.
ConnectorDiscover(fail) ==
    LET dial == conn = Nil
        tid  == IF dial THEN Len(transports) + 1 ELSE conn
        trs  == IF dial THEN Append(transports, "open") ELSE transports
    IN
    /\ CanCall
    /\ nCalls' = nCalls + 1
    /\ UNCHANGED <<gvkMap, closeReturned, sendAttempts, lastExchange, sessions>>
    /\ UNCHANGED nonClientVars
    /\ IF dial /\ fail = "dial" THEN
           /\ lastCall' = Call("Discover", Nil, NoKind, "TransportConnect")
           /\ UNCHANGED <<conn, transports>>
       ELSE
           /\ conn' = tid
           /\ transports' = trs
           /\ lastCall' = Call("Discover", Nil, NoKind,
                  IF fail = "rpc" \/ trs[tid] = "closed"
                  THEN "DiscoverFailed" ELSE "ok")

\* StreamingConnector.Close().  When conn.Close() returns an error the
\* connection is kept.
ConnectorClose(closeOk) ==
    /\ CanCall
    /\ nCalls' = nCalls + 1
    /\ closeReturned' = TRUE
    /\ UNCHANGED <<gvkMap, sendAttempts, lastExchange, sessions>>
    /\ UNCHANGED nonClientVars
    /\ IF conn = Nil THEN
           /\ lastCall' = Call("Close", Nil, NoKind, "ok")
           /\ UNCHANGED <<conn, transports>>
       ELSE IF closeOk THEN
           /\ transports' = [transports EXCEPT ![conn] = "closed"]
           /\ conn' = Nil
           /\ lastCall' = Call("Close", Nil, NoKind, "ok")
       ELSE
           /\ lastCall' = Call("Close", Nil, NoKind, "TransportClose")
           /\ UNCHANGED <<conn, transports>>

\* StreamingClient.Observe / Create / Update / Delete on session s with an
\* object of kind k: the four methods have the same shape.  The object is
\* encoded, then sent on c.stream without a look at the session's state:
\* with c.stream nil (after Disconnect) the send is a nil dereference.
SessionCrud(s, op, k, fail) ==
    LET res == IF fail = "encode" THEN "CodecEncode"
               ELSE IF sessions[s].stream = "nil" THEN "panic"
               ELSE IF sessions[s].broken THEN "RPCSend"
               ELSE ExchangeResult(fail)
    IN
    /\ CanCall
    /\ s \in DOMAIN sessions
    /\ nCalls' = nCalls + 1
    /\ lastCall' = Call(op, s, k, res)
    /\ lastExchange' = Exchange(res, fail)
    /\ sendAttempts' = IF res \in {"CodecEncode", "panic"}
                       THEN sendAttempts ELSE sendAttempts + 1
    /\ sessions' = [sessions EXCEPT
                      ![s].broken = sessions[s].broken \/ StreamFailed(res)]
    /\ UNCHANGED <<conn, gvkMap, transports, closeReturned>>
    /\ UNCHANGED nonClientVars

SessionObserve(s, k, fail) == SessionCrud(s, "Observe", k, fail)

SessionCreate(s, k, fail) == SessionCrud(s, "Create", k, fail)

SessionUpdate(s, k, fail) == SessionCrud(s, "Update", k, fail)

SessionDelete(s, k, fail) == SessionCrud(s, "Delete", k, fail)

\* A Disconnect that hands the failure of its exchange to the caller.
DisconnectResultPropagated(fail) ==
    IF fail \in {"send", "recv"} THEN ExchangeResult(fail) ELSE "ok"

\* What Disconnect returns when step fail of its exchange failed ("none":
\* no step did): both errors are logged and nil is returned.
DisconnectResult(fail) == "ok"

\* StreamingClient.Disconnect: nothing to do when c.stream is nil;
\* otherwise the request is sent and the reply awaited, also after a
\* failed send;
\* errors are only logged, and c.stream becomes nil.  fail: "send", "recv".
SessionDisconnect(s, fail) ==
    LET failed == IF sessions[s].broken THEN "send" ELSE fail
    IN
    /\ CanCall
    /\ s \in DOMAIN sessions
    /\ nCalls' = nCalls + 1
    /\ UNCHANGED <<conn, gvkMap, transports, closeReturned>>
    /\ UNCHANGED nonClientVars
    /\ IF sessions[s].stream = "nil" THEN
           /\ lastCall' = Call("Disconnect", s, NoKind, "ok")
           /\ UNCHANGED <<sendAttempts, lastExchange, sessions>>
       ELSE
           /\ lastCall' = Call("Disconnect", s, NoKind,
                               DisconnectResult(failed))
           /\ sendAttempts' = sendAttempts + 1
           /\ UNCHANGED lastExchange
           /\ sessions' = [sessions EXCEPT
                  ![s].stream = "nil",
                  ![s].broken = failed \in {"send", "recv"}]

StartFailures == {"none", "dial", "session", "encode", "send", "recv",
                  "variant", "decode"}

CallFailures == {"none", "encode", "send", "recv", "variant", "decode"}

SessionIds == 1 .. MaxCalls

ClientNext ==
    \/ \E k \in ClientKinds, f \in StartFailures : ConnectorConnect(k, f)
    \/ \E f \in {"none", "dial", "rpc"} : ConnectorDiscover(f)
    \/ \E ok \in BOOLEAN : ConnectorClose(ok)
    \/ \E s \in SessionIds, k \in ClientKinds, f \in CallFailures :
           SessionObserve(s, k, f)
    \/ \E s \in SessionIds, k \in ClientKinds, f \in CallFailures :
           SessionCreate(s, k, f)
    \/ \E s \in SessionIds, k \in ClientKinds, f \in CallFailures :
           SessionUpdate(s, k, f)
    \/ \E s \in SessionIds, k \in ClientKinds, f \in CallFailures :
           SessionDelete(s, k, f)
    \/ \E s \in SessionIds, f \in {"none", "send", "recv"} :
           SessionDisconnect(s, f)

\* ------------------------------------- connector: concurrent goroutines

\* Reconciler goroutines that share the connector.
Goroutines == {"g1", "g2"}

\* The value of mu while no goroutine holds the connector's mutex.
Unlocked == "unlocked"

\* A Lock that never waits.
LockNeverWaits(holder) == TRUE

\* c.mu.Lock() returns only while no goroutine holds the mutex.
CanLock(holder) == holder = Unlocked

\* The goroutines that are inside a call.
InFlight == {g \in Goroutines : pc[g] # "idle"}

NoCall == [api |-> "none", kind |-> NoKind]

ThreadInit ==
    /\ mu = Unlocked
    /\ pc = [g \in Goroutines |-> "idle"]
    /\ inCall = [g \in Goroutines |-> NoCall]

\* Goroutine g enters a connector method and reaches its c.mu.Lock().
Begin(g, api, k, at) ==
    /\ pc[g] = "idle"
    /\ nCalls + Cardinality(InFlight) < MaxCalls
    /\ pc' = [pc EXCEPT ![g] = at]
    /\ inCall' = [inCall EXCEPT ![g] = [api |-> api, kind |-> k]]
    /\ UNCHANGED <<mu, conn, gvkMap, sessions, transports, closeReturned,
                   sendAttempts, lastExchange, nCalls, lastCall>>
    /\ UNCHANGED nonConnectorVars

\* Goroutine g moves on to statement at, still inside its call.
Goto(g, at) ==
    /\ pc' = [pc EXCEPT ![g] = at]
    /\ UNCHANGED <<inCall, nCalls, lastCall>>

\* Goroutine g returns from its call: the deferred c.mu.Unlock() runs.
Finish(g, sess, result) ==
    /\ pc' = [pc EXCEPT ![g] = "idle"]
    /\ mu' = Unlocked
    /\ inCall' = [inCall EXCEPT ![g] = NoCall]
    /\ nCalls' = nCalls + 1
    /\ lastCall' = Call(inCall[g].api, sess, inCall[g].kind, result)

\* The statement that follows each c.mu.Lock().
AfterLock ==
    [at \in {"ConnectLock", "DiscoverLock", "DiscoverRelock", "CloseLock"} |->
        CASE at = "ConnectLock"    -> "ConnectCheck"
          [] at = "DiscoverLock"   -> "DiscoverCheck"
          [] at = "DiscoverRelock" -> "DiscoverCall"
          [] at = "CloseLock"      -> "CloseBody"]

GoConnect(g, k) == Begin(g, "Connect", k, "ConnectLock")

GoDiscover(g) == Begin(g, "Discover", NoKind, "DiscoverLock")

GoClose(g) == Begin(g, "Close", NoKind, "CloseLock")

\* c.mu.Lock() returns in goroutine g.
GoLock(g) ==
    /\ pc[g] \in DOMAIN AfterLock
    /\ CanLock(mu)
    /\ mu' = g
    /\ Goto(g, AfterLock[pc[g]])
    /\ UNCHANGED <<conn, gvkMap, sessions, transports, closeReturned,
                   sendAttempts, lastExchange>>
    /\ UNCHANGED nonConnectorVars

\* Connect, holding the mutex: the kind check and the test c.conn == nil.
GoConnectCheck(g) ==
    /\ pc[g] = "ConnectCheck"
    /\ UNCHANGED <<conn, gvkMap, sessions, transports, closeReturned,
                   sendAttempts, lastExchange>>
    /\ UNCHANGED nonConnectorVars
    /\ IF ~KindSupported(gvkMap, inCall[g].kind) THEN
           Finish(g, Nil, "ConnectorUnsupportedKind")
       ELSE
           /\ Goto(g, IF conn = Nil THEN "ConnectDial" ELSE "ConnectSession")
           /\ UNCHANGED mu

\* Connect: c.conn, err = c.clientFactory.NewClient(...).
GoConnectDial(g, ok) ==
    /\ pc[g] = "ConnectDial"
    /\ UNCHANGED <<gvkMap, sessions, closeReturned, sendAttempts, lastExchange>>
    /\ UNCHANGED nonConnectorVars
    /\ IF ok THEN
           /\ transports' = Append(transports, "open")
           /\ conn' = Len(transports) + 1
           /\ Goto(g, "ConnectSession")
           /\ UNCHANGED mu
       ELSE
           /\ Finish(g, Nil, "TransportConnect")
           /\ UNCHANGED <<conn, transports>>

\* Connect: client.startSession(ctx, mg), made with the mutex still held,
\* and the return.  With c.client nil the call is a nil dereference.
GoConnectSession(g, fail) ==
    LET res == IF conn = Nil THEN "panic"
               ELSE IF fail = "session" \/ transports[conn] = "closed"
                    THEN "SessionOpen"
               ELSE IF fail = "encode" THEN "CodecEncode"
               ELSE ExchangeResult(fail)
    IN
    /\ pc[g] = "ConnectSession"
    /\ UNCHANGED <<conn, gvkMap, transports, closeReturned, sendAttempts,
                   lastExchange>>
    /\ UNCHANGED nonConnectorVars
    /\ IF res = "ok" THEN
           /\ sessions' = Append(sessions,
                  [gvk |-> inCall[g].kind, stream |-> "open",
                   broken |-> FALSE])
           /\ Finish(g, Len(sessions) + 1, "ok")
       ELSE
           /\ sessions' = sessions
           /\ Finish(g, Nil, res)

\* connectClient, holding the mutex: the test c.conn == nil; with a
\* connection present it returns and the mutex is released.
GoDiscoverCheck(g) ==
    /\ pc[g] = "DiscoverCheck"
    /\ UNCHANGED <<conn, gvkMap, sessions, transports, closeReturned,
                   sendAttempts, lastExchange>>
    /\ UNCHANGED nonConnectorVars
    /\ IF conn = Nil THEN
           /\ Goto(g, "DiscoverDial")
           /\ UNCHANGED mu
       ELSE
           /\ Goto(g, "DiscoverRelock")
           /\ mu' = Unlocked

\* connectClient: the dial, and the return that releases the mutex.
GoDiscoverDial(g, ok) ==
    /\ pc[g] = "DiscoverDial"
    /\ UNCHANGED <<gvkMap, sessions, closeReturned, sendAttempts, lastExchange>>
    /\ UNCHANGED nonConnectorVars
    /\ IF ok THEN
           /\ transports' = Append(transports, "open")
           /\ conn' = Len(transports) + 1
           /\ Goto(g, "DiscoverRelock")
           /\ mu' = Unlocked
       ELSE
           /\ Finish(g, Nil, "TransportConnect")
           /\ UNCHANGED <<conn, transports>>

\* Discover, holding the mutex again: the unary RPC, or the not-connected
\* error when a Close got in between.
GoDiscoverCall(g, fail) ==
    /\ pc[g] = "DiscoverCall"
    /\ UNCHANGED <<conn, gvkMap, sessions, transports, closeReturned,
                   sendAttempts, lastExchange>>
    /\ UNCHANGED nonConnectorVars
    /\ Finish(g, Nil, IF conn = Nil THEN "NotConnected"
                      ELSE IF fail = "rpc" THEN "DiscoverFailed"
                      ELSE "ok")

\* Close, holding the mutex.
GoCloseBody(g, closeOk) ==
    /\ pc[g] = "CloseBody"
    /\ closeReturned' = TRUE
    /\ UNCHANGED <<gvkMap, sessions, sendAttempts, lastExchange>>
    /\ UNCHANGED nonConnectorVars
    /\ IF conn = Nil THEN
           /\ Finish(g, Nil, "ok")
           /\ UNCHANGED <<conn, transports>>
       ELSE IF closeOk THEN
           /\ transports' = [transports EXCEPT ![conn] = "closed"]
           /\ conn' = Nil
           /\ Finish(g, Nil, "ok")
       ELSE
           /\ Finish(g, Nil, "TransportClose")
           /\ UNCHANGED <<conn, transports>>

SessionFailures == StartFailures \ {"dial"}

ThreadNext ==
    \/ \E g \in Goroutines, k \in ClientKinds : GoConnect(g, k)
    \/ \E g \in Goroutines : GoDiscover(g)
    \/ \E g \in Goroutines : GoClose(g)
    \/ \E g \in Goroutines : GoLock(g)
    \/ \E g \in Goroutines : GoConnectCheck(g)
    \/ \E g \in Goroutines, ok \in BOOLEAN : GoConnectDial(g, ok)
    \/ \E g \in Goroutines, f \in SessionFailures : GoConnectSession(g, f)
    \/ \E g \in Goroutines : GoDiscoverCheck(g)
    \/ \E g \in Goroutines, ok \in BOOLEAN : GoDiscoverDial(g, ok)
    \/ \E g \in Goroutines, f \in {"none", "rpc"} : GoDiscoverCall(g, f)
    \/ \E g \in Goroutines, ok \in BOOLEAN : GoCloseBody(g, ok)


\* ------------------------------------------- server: handler registry

\* Kinds a provider tries to register: kinds of its scheme and the zero
\* GroupVersionKind.
RegistryKinds == SchemeKinds \cup {NoKind}

\* gvk.Empty(): group, version and kind are all empty.
Empty(gvk) == gvk.group = "" /\ gvk.version = "" /\ gvk.kind = ""

\* A registry that never finds an earlier entry.
ExistsNever(h, k) == FALSE

\* RegisterHandler's test _, exists := s.handlers[gvk].
Exists(h, k) == k \in DOMAIN h

\* An apiVersion that leaves the group out.
GroupVersionStringNoGroup(gvk) == <<gvk.version>>

\* gvk.GroupVersion().String(): "group/version", or "version" alone for
\* the core group.  An apiVersion string is held as the sequence of its
\* segments between the "/" separators.
GroupVersionString(gvk) ==
    IF gvk.group # "" THEN <<gvk.group, gvk.version>> ELSE <<gvk.version>>

\* The Reconciler_Reference Discover builds for a registered kind.
DiscoverEntry(k) ==
    [apiVersion |-> GroupVersionString(GVK(k)), kind |-> GVK(k).kind]

\* The orders in which a range over a Go map with key set S can visit S.
MapOrders(S) ==
    {o \in [1 .. Cardinality(S) -> S] :
        \A i, j \in 1 .. Cardinality(S) : i # j => o[i] # o[j]}

\* A ProviderServer as NewProviderServer returns it.
NewProviderServer ==
    /\ handlers = [k \in {} |-> NilHandler]
    /\ RegistryIdle

CanRegister == nRegs < MaxRegistrations

\* ProviderServer.RegisterHandler(gvk, h); h is a handler or nil.
RegisterHandler(k, h) ==
    LET err == IF h = NilHandler THEN "RegisterNil"
               ELSE IF Empty(GVK(k)) THEN "RegisterEmptyKind"
               ELSE IF Exists(handlers, k) THEN "RegisterDuplicate"
               ELSE "ok"
    IN
    /\ CanRegister
    /\ nRegs' = nRegs + 1
    /\ lastReg' = RegCall("RegisterHandler", k, h, err)
    /\ discoveries' = <<>>
    /\ handlers' = IF err = "ok"
                   THEN [x \in DOMAIN handlers \cup {k} |->
                            IF x = k THEN h ELSE handlers[x]]
                   ELSE handlers
    /\ UNCHANGED nonRegistryVars

\* ProviderServer.Discover: one Reconciler per key of s.handlers, in the
\* order the range over the map happens to visit them.
Discover(order) ==
    /\ CanRegister
    /\ order \in MapOrders(DOMAIN handlers)
    /\ nRegs' = nRegs + 1
    /\ lastReg' = RegCall("Discover", NoKind, NilHandler, "ok")
    /\ discoveries' = Append(discoveries,
           [i \in DOMAIN order |-> DiscoverEntry(order[i])])
    /\ UNCHANGED handlers
    /\ UNCHANGED nonRegistryVars

RegistryNext ==
    \/ \E k \in RegistryKinds, h \in Handlers \cup {NilHandler} :
           RegisterHandler(k, h)
    \/ \E o \in MapOrders(DOMAIN handlers) : Discover(o)

\* ------------------------------------- server: caching legacy server

\* Names of the managed resources the unary calls are about.
ResourceNames == {"db1", "db2"}

\* Kinds of those resources: one with a handler, one without.
LegacyKinds == {"Widget", "Sprocket"}

\* Addresses at which the runtime can place a request's Resource struct;
\* a later request may land where an earlier, freed one was.
Addresses == {"0xc0000a", "0xc0000b"}

\* connKey := fmt.Sprintf("%s/%p", gvk.String(), req.Resource): the kind
\* and the address of the request's Resource struct.
ConnKey(k, addr) == [gvk |-> k, addr |-> addr]

NoConnections == [key \in {} |-> Nil]

LegacyCall(op, name, k, key, result) ==
    [op |-> op, name |-> name, kind |-> k, key |-> key, result |-> result]

\* NewLegacyServer, registered with a gRPC server that is serving.
LegacyInit ==
    /\ connections = NoConnections
    /\ legacyClients = <<>>
    /\ stopped = FALSE
    /\ nLegacy = 0
    /\ lastLegacy = LegacyCall("none", "none", NoKind, ConnKey(NoKind, "none"),
                               "none")

\* LegacyServer.Observe / Create / Update / Delete for the resource name of
\* kind k whose request struct sits at addr: the four methods have the same
\* shape, and Delete also calls disconnectClient(connKey) once the client's
\* Delete has succeeded.  fail names the first collaborator call that
\* fails, if the method gets that far: "decode", "connect" (the handler
\* factory), "call" (the external client's method), "encode".
LegacyCrud(op, name, k, addr, fail) ==
    LET d      == FromProtoStruct(k, fail # "decode")
        key    == ConnKey(k, addr)
        cached == key \in DOMAIN connections
        getErr == IF cached THEN "ok"
                  ELSE IF ~HandlerRegistered(handlers, k) THEN "HandlerNotFound"
                  ELSE IF fail = "connect" THEN "ConnectFailed"
                  ELSE "ok"
        got    == d = "ok" /\ getErr = "ok"
        cid    == IF cached THEN connections[key] ELSE Len(legacyClients) + 1
        cls1   == IF got /\ ~cached
                  THEN Append(legacyClients,
                           [name |-> name, kind |-> k, disconnects |-> 0])
                  ELSE legacyClients
        conns1 == IF got /\ ~cached
                  THEN [x \in DOMAIN connections \cup {key} |->
                           IF x = key THEN cid ELSE connections[x]]
                  ELSE connections
        del    == op = "Delete" /\ got /\ fail # "call"
        res    == IF d # "ok" THEN d
                  ELSE IF getErr # "ok" THEN getErr
                  ELSE IF fail = "call" THEN "HandlerError"
                  ELSE IF fail = "encode" THEN "CodecEncode"
                  ELSE "ok"
    IN
    /\ ~stopped
    /\ nLegacy < MaxLegacyCalls
    /\ nLegacy' = nLegacy + 1
    /\ lastLegacy' = LegacyCall(op, name, k, key, res)
    /\ legacyClients' = IF del
                        THEN [cls1 EXCEPT ![cid].disconnects = @ + 1]
                        ELSE cls1
    /\ connections' = IF del
                      THEN [x \in DOMAIN conns1 \ {key} |-> conns1[x]]
                      ELSE conns1
    /\ UNCHANGED stopped
    /\ UNCHANGED nonLegacyVars

LegacyObserve(name, k, addr, fail) == LegacyCrud("Observe", name, k, addr, fail)

LegacyCreate(name, k, addr, fail) == LegacyCrud("Create", name, k, addr, fail)

LegacyUpdate(name, k, addr, fail) == LegacyCrud("Update", name, k, addr, fail)

LegacyDelete(name, k, addr, fail) == LegacyCrud("Delete", name, k, addr, fail)

\* LegacyServer.CleanupConnections: Disconnect is called on every cached
\* client and the map is replaced by an empty one.
CleanupConnections ==
    /\ connections # NoConnections
    /\ legacyClients' =
           [c \in DOMAIN legacyClients |->
               IF \E key \in DOMAIN connections : connections[key] = c
               THEN [legacyClients[c] EXCEPT !.disconnects = @ + 1]
               ELSE legacyClients[c]]
    /\ connections' = NoConnections
    /\ UNCHANGED <<stopped, nLegacy, lastLegacy>>
    /\ UNCHANGED nonLegacyVars

\* The provider server shuts down: ProviderBuilder.Stop, or the goroutine
\* of ProviderBuilder.Start once its context is done, calls
\* grpcServer.GracefulStop() and nothing else.
GracefulStop ==
    /\ ~stopped
    /\ stopped' = TRUE
    /\ UNCHANGED <<connections, legacyClients, nLegacy, lastLegacy>>
    /\ UNCHANGED nonLegacyVars

LegacyFailures == {"none", "decode", "connect", "call", "encode"}

LegacyNext ==
    \/ \E n \in ResourceNames, k \in LegacyKinds, a \in Addresses,
          f \in LegacyFailures : LegacyObserve(n, k, a, f)
    \/ \E n \in ResourceNames, k \in LegacyKinds, a \in Addresses,
          f \in LegacyFailures : LegacyCreate(n, k, a, f)
    \/ \E n \in ResourceNames, k \in LegacyKinds, a \in Addresses,
          f \in LegacyFailures : LegacyUpdate(n, k, a, f)
    \/ \E n \in ResourceNames, k \in LegacyKinds, a \in Addresses,
          f \in LegacyFailures : LegacyDelete(n, k, a, f)
    \/ CleanupConnections
    \/ GracefulStop

\* ------------------------------------------ controller: Provider.Setup

\* config.Name of the provider.
ProviderName == "provider-a"

\* The kinds a configuration or a Discover result can list.
ConfigKinds == {"Widget", "WidgetV2", "Sprocket"}

\* The resource types that stand for them.
ResourceTypes == {DiscoverEntry(k) : k \in ConfigKinds}

\* The lists of at most two of them; nothing keeps a configuration from
\* listing a type twice.
TypeLists ==
    {<<>>} \cup {<<a>> : a \in ResourceTypes}
           \cup {<<a, b>> : a \in ResourceTypes, b \in ResourceTypes}

\* schema.ParseGroupVersion: no "/" gives a version in the core group, one
\* "/" gives group and version, more is an error.
ParseGroupVersion(apiVersion) ==
    CASE Len(apiVersion) = 1 ->
             [err |-> FALSE, group |-> "", version |-> apiVersion[1]]
      [] Len(apiVersion) = 2 ->
             [err |-> FALSE, group |-> apiVersion[1],
              version |-> apiVersion[2]]
      [] OTHER -> [err |-> TRUE, group |-> "", version |-> ""]

\* ResourceTypeToGVK(rt), as the name of the kind it yields.
ResourceTypeToGVK(rt) ==
    LET gv == ParseGroupVersion(rt.apiVersion)
    IN  CHOOSE k \in KindInputs \cup ConfigKinds :
            GVK(k) = [group |-> gv.group, version |-> gv.version,
                      kind |-> rt.kind]

\* name := fmt.Sprintf("%s.%s.%s", rt.Kind, gv.Group, p.config.Name)
ControllerName(rt) ==
    rt.kind \o "." \o ParseGroupVersion(rt.apiVersion).group
            \o "." \o ProviderName

\* The loop that adds every discovered type not yet in
\* p.config.ResourceTypes (same apiVersion and kind) to it.
RECURSIVE MergeDiscovered(_, _)
MergeDiscovered(types, found) ==
    IF found = <<>> THEN types
    ELSE MergeDiscovered(
             IF \E i \in DOMAIN types : types[i] = Head(found)
             THEN types ELSE Append(types, Head(found)),
             Tail(found))

\* A Setup that gives up when Discover fails.
DiscoverErrorFatal(err) == err # "ok"

\* Whether Setup returns on the error of its Discover call: it logs it.
DiscoverErrorReturned(err) == FALSE

\* NewProvider(config): the connector is constructed with the configured
\* kinds as its allowed kinds; Setup has not been called.
NewProvider ==
    /\ resourceTypes \in TypeLists
    /\ configured = resourceTypes
    /\ gvkMap = {ResourceTypeToGVK(resourceTypes[i]) :
                     i \in DOMAIN resourceTypes}
    /\ setupPc = "new"
    /\ discoverErr = "none"
    /\ discoveredTypes = <<>>
    /\ started = <<>>
    /\ setupErr = "none"

\* No Provider is part of the run.
NoProvider ==
    /\ resourceTypes = <<>>
    /\ configured = <<>>
    /\ setupPc = "done"
    /\ discoverErr = "none"
    /\ discoveredTypes = <<>>
    /\ started = <<>>
    /\ setupErr = "none"

\* Setup up to its controller loop: the connector's closer is handed to
\* the manager, then p.connector.Discover is called under a context that
\* expires after 30 seconds.  fail: "dial", "rpc", "timeout" (the context
\* expired); found: the types a successful Discover returned.
SetupDiscover(fail, found) ==
    LET res == CASE fail = "dial"    -> "TransportConnect"
                 [] fail = "rpc"     -> "DiscoverFailed"
                 [] fail = "timeout" -> "DeadlineExceeded"
                 [] OTHER            -> "ok"
    IN
    /\ setupPc = "new"
    /\ res # "ok" => found = <<>>
    /\ discoverErr' = res
    /\ discoveredTypes' = found
    /\ IF fail = "dial" THEN UNCHANGED <<conn, transports>>
       ELSE /\ transports' = Append(transports, "open")
            /\ conn' = Len(transports) + 1
    /\ IF DiscoverErrorReturned(res) THEN
           /\ setupPc' = "done"
           /\ setupErr' = res
           /\ UNCHANGED resourceTypes
       ELSE
           /\ setupPc' = "controllers"
           /\ setupErr' = "none"
           /\ resourceTypes' = IF res = "ok"
                               THEN MergeDiscovered(resourceTypes, found)
                               ELSE resourceTypes
    /\ UNCHANGED <<configured, started>>
    /\ UNCHANGED <<gvkMap, sessions, closeReturned, sendAttempts,
                   lastExchange, nCalls,
                   lastCall>>
    /\ UNCHANGED nonSetupVars

\* One round of the controller loop: setupResourceController for the next
\* resource type.  fail: "start" (eng.Start), "watch" (eng.StartWatches).
SetupController(fail) ==
    LET rt == resourceTypes[Len(started) + 1]
    IN
    /\ setupPc = "controllers"
    /\ Len(started) < Len(resourceTypes)
    /\ IF fail = "start" THEN
           /\ setupPc' = "done"
           /\ setupErr' = "EngineStart"
           /\ UNCHANGED started
       ELSE
           /\ started' = Append(started,
                  [name |-> ControllerName(rt), type |-> rt])
           /\ setupPc' = IF fail = "watch" THEN "done" ELSE "controllers"
           /\ setupErr' = IF fail = "watch" THEN "EngineWatch" ELSE "none"
    /\ UNCHANGED <<resourceTypes, configured, discoverErr, discoveredTypes>>
    /\ UNCHANGED clientVars
    /\ UNCHANGED nonSetupVars

\* The loop is over: return nil.
SetupReturn ==
    /\ setupPc = "controllers"
    /\ Len(started) = Len(resourceTypes)
    /\ setupPc' = "done"
    /\ setupErr' = "ok"
    /\ UNCHANGED <<resourceTypes, configured, discoverErr, discoveredTypes,
                   started>>
    /\ UNCHANGED clientVars
    /\ UNCHANGED nonSetupVars

SetupNext ==
    \/ \E f \in {"none", "dial", "rpc", "timeout"}, found \in TypeLists :
           SetupDiscover(f, found)
    \/ \E f \in {"none", "start", "watch"} : SetupController(f)
    \/ SetupReturn

\* ------------------------------------- server: the registry's lock

\* The goroutines that use the handlers map: RegisterHandler, the Connect
\* case of a Session, Discover, the caching legacy server's GetHandler,
\* and a unary call of the legacy server that holds the map itself.
Registrar == "RegisterHandler"

LockedReaders == {"Session", "Discover", "GetHandler"}

PlainReader == "LegacyServer"

RegistryUsers == {Registrar, PlainReader} \cup LockedReaders

\* A goroutine that is not using the registry.
NoRegistryUse == [at |-> "idle", kind |-> NoKind, handler |-> NilHandler]

\* s.mu with no writer and no reader.
FreeRWMutex == [writer |-> Unlocked, readers |-> {}]

\* s.mu.Lock() returns only while nobody holds the lock.
CanWriteLock(rw) == rw.writer = Unlocked /\ rw.readers = {}

\* s.mu.RLock() returns only while no writer holds the lock.
CanReadLock(rw) == rw.writer = Unlocked

\* What a read of the map finds for kind k; a Discover (k is NoKind)
\* ranges over the whole map.
Seen(h, k) == IF k = NoKind THEN DOMAIN h ELSE {k} \cap DOMAIN h

\* A read of the handlers map: who made it, for which kind, whether the
\* reader held the read lock, what it found, and whether it ran into an
\* assignment under way (a data race: the Go runtime may end the process
\* with "concurrent map read and map write").
Lookup(by, k, held, found, raced) ==
    [by |-> by, kind |-> k, locked |-> held, seen |-> found,
     torn |-> raced]

\* No goroutine uses a registry.
NoRegistryUsers ==
    /\ regMu = FreeRWMutex
    /\ regPc = [g \in RegistryUsers |-> [NoRegistryUse EXCEPT !.at = "off"]]
    /\ mapWriting = NoKind
    /\ lookups = <<>>
    /\ nRegistryOps = 0

\* The goroutines of a server whose registry they are about to use.
RegistryUsersInit ==
    /\ regMu = FreeRWMutex
    /\ regPc = [g \in RegistryUsers |-> NoRegistryUse]
    /\ mapWriting = NoKind
    /\ lookups = <<>>
    /\ nRegistryOps = 0

\* Goroutine g begins a use of the registry and arrives at statement at.
BeginRegistryUse(g, at, k, h) ==
    /\ regPc[g].at = "idle"
    /\ nRegistryOps < MaxRegistryOps
    /\ nRegistryOps' = nRegistryOps + 1
    /\ regPc' = [regPc EXCEPT ![g] = [at |-> at, kind |-> k, handler |-> h]]

\* RegisterHandler(GVK(k), h), h not nil and the triple not empty, arrives
\* at s.mu.Lock().
RegisterBegin(k, h) ==
    /\ BeginRegistryUse(Registrar, "Lock", k, h)
    /\ UNCHANGED <<handlers, regMu, mapWriting, lookups>>
    /\ UNCHANGED nonLockVars

\* s.mu.Lock() returns.
RegisterLock ==
    /\ regPc[Registrar].at = "Lock"
    /\ CanWriteLock(regMu)
    /\ regMu' = [regMu EXCEPT !.writer = Registrar]
    /\ regPc' = [regPc EXCEPT ![Registrar].at = "Check"]
    /\ UNCHANGED <<handlers, mapWriting, lookups, nRegistryOps>>
    /\ UNCHANGED nonLockVars

\* The duplicate check: a registered kind is refused and the deferred
\* Unlock runs; otherwise the assignment s.handlers[gvk] = h begins.
RegisterCheck ==
    /\ regPc[Registrar].at = "Check"
    /\ IF regPc[Registrar].kind \in DOMAIN handlers THEN
           /\ regPc' = [regPc EXCEPT ![Registrar] = NoRegistryUse]
           /\ regMu' = [regMu EXCEPT !.writer = Unlocked]
           /\ UNCHANGED mapWriting
       ELSE
           /\ regPc' = [regPc EXCEPT ![Registrar].at = "Assign"]
           /\ mapWriting' = regPc[Registrar].kind
           /\ UNCHANGED regMu
    /\ UNCHANGED <<handlers, lookups, nRegistryOps>>
    /\ UNCHANGED nonLockVars

\* The assignment is complete, RegisterHandler returns, the deferred
\* Unlock runs.
RegisterAssign ==
    /\ regPc[Registrar].at = "Assign"
    /\ handlers' = [k \in DOMAIN handlers \cup {mapWriting} |->
                       IF k = mapWriting THEN regPc[Registrar].handler
                       ELSE handlers[k]]
    /\ mapWriting' = NoKind
    /\ regPc' = [regPc EXCEPT ![Registrar] = NoRegistryUse]
    /\ regMu' = [regMu EXCEPT !.writer = Unlocked]
    /\ UNCHANGED <<lookups, nRegistryOps>>
    /\ UNCHANGED nonLockVars

\* A Session's Connect case (k its kind), Discover (k is NoKind) or
\* GetHandler arrives at s.mu.RLock().
ReadBegin(g, k) ==
    /\ g \in LockedReaders
    /\ (g = "Discover") <=> (k = NoKind)
    /\ BeginRegistryUse(g, "RLock", k, NilHandler)
    /\ UNCHANGED <<handlers, regMu, mapWriting, lookups>>
    /\ UNCHANGED nonLockVars

\* s.mu.RLock() returns.
ReadLock(g) ==
    /\ g \in LockedReaders
    /\ regPc[g].at = "RLock"
    /\ CanReadLock(regMu)
    /\ regMu' = [regMu EXCEPT !.readers = @ \cup {g}]
    /\ regPc' = [regPc EXCEPT ![g].at = "Read"]
    /\ UNCHANGED <<handlers, mapWriting, lookups, nRegistryOps>>
    /\ UNCHANGED nonLockVars

\* The read of the map by goroutine g.  While an assignment is under way
\* the read finds the old map (outcome "old"), the new one ("new"), or
\* the runtime detects the race ("torn").
ReadMap(g, k, outcome) ==
    /\ outcome # "old" => mapWriting # NoKind
    /\ lookups' = Append(lookups,
           Lookup(g, k, g \in regMu.readers,
                  IF outcome = "new"
                  THEN Seen(handlers, k) \cup Seen([w \in {mapWriting} |->
                                                       NilHandler], k)
                  ELSE Seen(handlers, k),
                  outcome = "torn"))

\* The read under the read lock, and s.mu.RUnlock().
ReadLocked(g, outcome) ==
    /\ g \in LockedReaders
    /\ regPc[g].at = "Read"
    /\ ReadMap(g, regPc[g].kind, outcome)
    /\ regMu' = [regMu EXCEPT !.readers = @ \ {g}]
    /\ regPc' = [regPc EXCEPT ![g] = NoRegistryUse]
    /\ UNCHANGED <<handlers, mapWriting, nRegistryOps>>
    /\ UNCHANGED nonLockVars

\* A unary call of the LegacyServer that was constructed with the
\* handlers map: c, ok := s.handlers[gvk], with no lock to take.
ReadPlain(k, outcome) ==
    /\ regPc[PlainReader].at = "idle"
    /\ nRegistryOps < MaxRegistryOps
    /\ nRegistryOps' = nRegistryOps + 1
    /\ ReadMap(PlainReader, k, outcome)
    /\ UNCHANGED <<handlers, regMu, regPc, mapWriting>>
    /\ UNCHANGED nonLockVars

ReadOutcomes == {"old", "new", "torn"}

LockNext ==
    \/ \E k \in RegisteredKinds, h \in Handlers : RegisterBegin(k, h)
    \/ RegisterLock
    \/ RegisterCheck
    \/ RegisterAssign
    \/ \E g \in LockedReaders, k \in RegisteredKinds \cup {NoKind} :
           ReadBegin(g, k)
    \/ \E g \in LockedReaders : ReadLock(g)
    \/ \E g \in LockedReaders, o \in ReadOutcomes : ReadLocked(g, o)
    \/ \E k \in RegisteredKinds, o \in ReadOutcomes : ReadPlain(k, o)

\* ------------------------- caching legacy server: getOrCreateClient

CacheKeys == {"key1", "key2"}

\* A goroutine that is not in getOrCreateClient.
NoCacheCall == [at |-> "idle", key |-> ""]

\* A second check that never finds the entry.
CachedAfterLockNever(conns, key) == FALSE

\* The check made again once the write lock is held, "in case another
\* goroutine created it".
CachedAfterLock(conns, key) == key \in DOMAIN conns

\* No goroutine calls getOrCreateClient.
NoCacheCalls ==
    /\ cacheMu = Unlocked
    /\ cachePc = [g \in Goroutines |-> [NoCacheCall EXCEPT !.at = "off"]]
    /\ cache = <<>>
    /\ cacheConnects = <<>>
    /\ cacheReturned = <<>>
    /\ nCacheCalls = 0

\* NewLegacyServer: an empty connections map.
CacheInit ==
    /\ cacheMu = Unlocked
    /\ cachePc = [g \in Goroutines |-> NoCacheCall]
    /\ cache = <<>>
    /\ cacheConnects = <<>>
    /\ cacheReturned = <<>>
    /\ nCacheCalls = 0

\* getOrCreateClient returns in goroutine g with the given client (Nil
\* with an error).
CacheReturn(g, client) ==
    /\ cacheReturned' = Append(cacheReturned,
           [by |-> g, key |-> cachePc[g].key, client |-> client])
    /\ cachePc' = [cachePc EXCEPT ![g] = NoCacheCall]

\* Goroutine g calls getOrCreateClient(ctx, key, gvk, mg) and arrives at
\* s.mu.RLock().
CacheGet(g, key) ==
    /\ cachePc[g].at = "idle"
    /\ nCacheCalls < MaxCacheCalls
    /\ nCacheCalls' = nCacheCalls + 1
    /\ cachePc' = [cachePc EXCEPT ![g] = [at |-> "FirstCheck", key |-> key]]
    /\ UNCHANGED <<cacheMu, cache, cacheConnects, cacheReturned>>
    /\ UNCHANGED nonCacheVars

\* The first check, under the read lock: a cached client is returned,
\* otherwise the goroutine goes on to s.mu.Lock().
CacheFirstCheck(g) ==
    /\ cachePc[g].at = "FirstCheck"
    /\ cacheMu = Unlocked
    /\ IF cachePc[g].key \in DOMAIN cache
       THEN CacheReturn(g, cache[cachePc[g].key])
       ELSE /\ cachePc' = [cachePc EXCEPT ![g].at = "Lock"]
            /\ UNCHANGED cacheReturned
    /\ UNCHANGED <<cacheMu, cache, cacheConnects, nCacheCalls>>
    /\ UNCHANGED nonCacheVars

\* s.mu.Lock() returns.
CacheLock(g) ==
    /\ cachePc[g].at = "Lock"
    /\ cacheMu = Unlocked
    /\ cacheMu' = g
    /\ cachePc' = [cachePc EXCEPT ![g].at = "SecondCheck"]
    /\ UNCHANGED <<cache, cacheConnects, cacheReturned, nCacheCalls>>
    /\ UNCHANGED nonCacheVars

\* The second check, holding the write lock: a client cached meanwhile is
\* returned and the deferred Unlock runs.
CacheSecondCheck(g) ==
    /\ cachePc[g].at = "SecondCheck"
    /\ IF CachedAfterLock(cache, cachePc[g].key)
       THEN /\ CacheReturn(g, cache[cachePc[g].key])
            /\ cacheMu' = Unlocked
       ELSE /\ cachePc' = [cachePc EXCEPT ![g].at = "Connect"]
            /\ UNCHANGED <<cacheReturned, cacheMu>>
    /\ UNCHANGED <<cache, cacheConnects, nCacheCalls>>
    /\ UNCHANGED nonCacheVars

\* GetHandler and handler.Connect, holding the write lock; a client that
\* Connect returned is stored under the key.  fail: "handler" (no handler
\* for the kind: Connect is not called), "connect".
CacheConnect(g, fail) ==
    LET key == cachePc[g].key
        id == Len(cacheConnects) + 1
    IN
    /\ cachePc[g].at = "Connect"
    /\ cacheMu' = Unlocked
    /\ IF fail = "handler" THEN
           /\ CacheReturn(g, Nil)
           /\ UNCHANGED <<cache, cacheConnects>>
       ELSE
           /\ cacheConnects' = Append(cacheConnects,
                  [key |-> key, ok |-> fail = "none",
                   cached |-> key \in DOMAIN cache])
           /\ IF fail = "connect" THEN
                  /\ CacheReturn(g, Nil)
                  /\ UNCHANGED cache
              ELSE
                  /\ CacheReturn(g, id)
                  /\ cache' = [k \in DOMAIN cache \cup {key} |->
                                  IF k = key THEN id ELSE cache[k]]
    /\ UNCHANGED nCacheCalls
    /\ UNCHANGED nonCacheVars

CacheNext ==
    \/ \E g \in Goroutines, key \in CacheKeys : CacheGet(g, key)
    \/ \E g \in Goroutines : CacheFirstCheck(g)
    \/ \E g \in Goroutines : CacheLock(g)
    \/ \E g \in Goroutines : CacheSecondCheck(g)
    \/ \E g \in Goroutines, f \in {"none", "handler", "connect"} :
           CacheConnect(g, f)

\* ------------------------------------- legacy server without cache

\* A unary call and what it returned; client is the ephemeral client it
\* connected, Nil if it connected none.
UnaryCall(op, k, client, result) ==
    [op |-> op, kind |-> k, client |-> client, result |-> result]

\* A deferred function that is skipped when the call returns an error.
DeferredDisconnectsOnSuccess(result) == IF result = "ok" THEN 1 ELSE 0

\* The deferred function registered once Connect has returned a client:
\* it calls the client's Disconnect, once, at every return that follows.
DeferredDisconnects(result) == 1

\* No legacy server without cache is part of the run.
NoUnaryServer ==
    /\ ephemeral = <<>>
    /\ lastUnary = UnaryCall("off", NoKind, Nil, "none")
    /\ nUnaryCalls = 0

\* NewLegacyServer(scheme, handlers, log).
UnaryInit ==
    /\ ephemeral = <<>>
    /\ lastUnary = UnaryCall("none", NoKind, Nil, "none")
    /\ nUnaryCalls = 0

\* LegacyServer.Observe / Create / Update / Delete for a resource of
\* kind k: the four methods have the same shape.  fail: "decode",
\* "connect" (the handler's Connect), "call" (the client's method),
\* "encode" (common.AsStruct).
UnaryCrud(op, k, fail) ==
    LET d == FromProtoStruct(k, fail # "decode")
        id == Len(ephemeral) + 1
        res == CASE fail = "call"   -> "HandlerError"
                 [] fail = "encode" -> "CodecEncode"
                 [] OTHER           -> "ok"
    IN
    /\ nUnaryCalls < MaxUnaryCalls
    /\ nUnaryCalls' = nUnaryCalls + 1
    /\ UNCHANGED nonUnaryVars
    /\ IF d # "ok" THEN
           /\ lastUnary' = UnaryCall(op, k, Nil, d)
           /\ UNCHANGED ephemeral
       ELSE IF k \notin DOMAIN handlers THEN
           /\ lastUnary' = UnaryCall(op, k, Nil, "HandlerNotFound")
           /\ UNCHANGED ephemeral
       ELSE IF fail = "connect" THEN
           /\ lastUnary' = UnaryCall(op, k, Nil, "HandlerConnect")
           /\ UNCHANGED ephemeral
       ELSE
           /\ lastUnary' = UnaryCall(op, k, id, res)
           /\ ephemeral' = Append(ephemeral,
                  [kind |-> k, method |-> op,
                   closed |-> DeferredDisconnects(res)])

UnaryFailures == {"none", "decode", "connect", "call", "encode"}

UnaryNext ==
    \E op \in CrudOps, k \in KindInputs, f \in UnaryFailures :
        UnaryCrud(op, k, f)

\* ------------------------------------ server: ProviderBuilder.Start

StreamIds == {1, 2}

\* A stream nobody has opened.
NoStream == [at |-> "none", connected |-> FALSE, closed |-> 0, handled |-> 0]

\* No provider server has been started.
NoShutdown ==
    /\ startCtx = "none"
    /\ grpcServer = "none"
    /\ streams = [s \in StreamIds |-> NoStream]

\* ProviderBuilder.Start has returned nil: the listener is open, one
\* goroutine serves it and another waits for the context.
StartReturned ==
    /\ startCtx = "live"
    /\ grpcServer = "serving"
    /\ streams = [s \in StreamIds |-> NoStream]

\* A client opens stream s and the gRPC server, still accepting, calls
\* Session for it; Session blocks in stream.Recv.
StreamOpen(s) ==
    /\ grpcServer = "serving"
    /\ streams[s].at = "none"
    /\ streams' = [streams EXCEPT ![s].at = "recv"]
    /\ UNCHANGED <<startCtx, grpcServer>>
    /\ UNCHANGED nonShutdownVars

\* The client of stream s sends a request; Session handles it (a Connect
\* gives the session its external client) and blocks in Recv again.
StreamRequest(s, isConnect) ==
    /\ streams[s].at = "recv"
    /\ streams[s].handled < MaxStreamRequests
    /\ streams' = [streams EXCEPT
           ![s].handled = @ + 1,
           ![s].connected = @ \/ isConnect]
    /\ UNCHANGED <<startCtx, grpcServer>>
    /\ UNCHANGED nonShutdownVars

\* The client of stream s closes or cancels it: Recv fails or the
\* stream's context is done, Session returns and its deferred function
\* disconnects the external client if there is one.
StreamEnds(s) ==
    /\ streams[s].at = "recv"
    /\ streams' = [streams EXCEPT
           ![s].at = "returned",
           ![s].closed = IF streams[s].connected THEN 1 ELSE 0]
    /\ UNCHANGED <<startCtx, grpcServer>>
    /\ UNCHANGED nonShutdownVars

\* The caller cancels the context it gave to Start.
CancelStartContext ==
    /\ startCtx = "live"
    /\ startCtx' = "cancelled"
    /\ UNCHANGED <<grpcServer, streams>>
    /\ UNCHANGED nonShutdownVars

\* The goroutine waiting on ctx.Done calls grpcServer.GracefulStop,
\* which stops the server accepting and waits for the pending calls.
GracefulStopBegin ==
    /\ startCtx = "cancelled"
    /\ grpcServer = "serving"
    /\ grpcServer' = "stopping"
    /\ UNCHANGED <<startCtx, streams>>
    /\ UNCHANGED nonShutdownVars

\* GracefulStop returns once no Session call is pending.
GracefulStopReturn ==
    /\ grpcServer = "stopping"
    /\ \A s \in StreamIds : streams[s].at # "recv"
    /\ grpcServer' = "stopped"
    /\ UNCHANGED <<startCtx, streams>>
    /\ UNCHANGED nonShutdownVars

ShutdownNext ==
    \/ \E s \in StreamIds : StreamOpen(s)
    \/ \E s \in StreamIds, c \in BOOLEAN : StreamRequest(s, c)
    \/ \E s \in StreamIds : StreamEnds(s)
    \/ CancelStartContext
    \/ GracefulStopBegin
    \/ GracefulStopReturn

\* -------------------------------------------- client: ConnectorManager

ManagerEndpoints == {"ep1", "ep2"}

\* A goroutine that is in no call on the manager.
NoManagerCall == [at |-> "idle", endpoint |-> "", kind |-> NoKind]

\* The connectors the manager has created and still holds.
Held == {i \in DOMAIN instances : ~instances[i].removed}

\* The goroutine that calls Connect on the connectors the manager
\* returned.
Callers == {"w1"}

\* A caller that is in no Connect.
NoConnectCall == [at |-> "idle", id |-> Nil, kind |-> NoKind, raced |-> FALSE]

\* The callers' positions once connector i's gvkMap has been written:
\* a caller in the middle of its read of that map has been overlapped.
Overlapped(i) ==
    [w \in Callers |->
        IF connPc[w].at = "Check" /\ connPc[w].id = i
        THEN [connPc[w] EXCEPT !.raced = TRUE]
        ELSE connPc[w]]

\* No ConnectorManager is part of the run.
NoManager ==
    /\ mgrMu = Unlocked
    /\ mgrPc = [g \in Goroutines |-> [NoManagerCall EXCEPT !.at = "off"]]
    /\ connectors = <<>>
    /\ instances = <<>>
    /\ returned = <<>>
    /\ nMgrCalls = 0
    /\ connPc = [w \in Callers |-> NoConnectCall]
    /\ checks = <<>>

\* NewConnectorManager: an empty map.
NewConnectorManager ==
    /\ mgrMu = Unlocked
    /\ mgrPc = [g \in Goroutines |-> NoManagerCall]
    /\ connectors = <<>>
    /\ instances = <<>>
    /\ returned = <<>>
    /\ nMgrCalls = 0
    /\ connPc = [w \in Callers |-> NoConnectCall]
    /\ checks = <<>>

\* Goroutine g calls GetOrCreateConnector(endpoint, creds, GVK(k)) and
\* arrives at m.mu.Lock().
ManagerGet(g, endpoint, k) ==
    /\ mgrPc[g].at = "idle"
    /\ nMgrCalls < MaxManagerCalls
    /\ nMgrCalls' = nMgrCalls + 1
    /\ mgrPc' = [mgrPc EXCEPT ![g] = [at |-> "GetLock",
                                      endpoint |-> endpoint, kind |-> k]]
    /\ UNCHANGED <<mgrMu, connectors, instances, returned>>
    /\ UNCHANGED connectVars
    /\ UNCHANGED nonManagerVars

\* Goroutine g calls Close() and arrives at m.mu.Lock().
ManagerClose(g) ==
    /\ mgrPc[g].at = "idle"
    /\ nMgrCalls < MaxManagerCalls
    /\ nMgrCalls' = nMgrCalls + 1
    /\ mgrPc' = [mgrPc EXCEPT ![g] = [NoManagerCall EXCEPT !.at = "CloseLock"]]
    /\ UNCHANGED <<mgrMu, connectors, instances, returned>>
    /\ UNCHANGED connectVars
    /\ UNCHANGED nonManagerVars

\* m.mu.Lock() returns.
ManagerLock(g) ==
    /\ mgrPc[g].at \in {"GetLock", "CloseLock"}
    /\ CanLock(mgrMu)
    /\ mgrMu' = g
    /\ mgrPc' = [mgrPc EXCEPT ![g].at =
                     IF mgrPc[g].at = "GetLock" THEN "Lookup" ELSE "CloseBody"]
    /\ UNCHANGED <<connectors, instances, returned, nMgrCalls>>
    /\ UNCHANGED connectVars
    /\ UNCHANGED nonManagerVars

\* The lookup: a connector the map holds gets the kind added and is
\* returned (the deferred Unlock runs); on a miss the call goes on.
ManagerLookup(g) ==
    /\ mgrPc[g].at = "Lookup"
    /\ LET ep == mgrPc[g].endpoint
       IN  IF ep \in DOMAIN connectors THEN
               /\ instances' = [instances EXCEPT ![connectors[ep]].gvkMap =
                                    @ \cup {mgrPc[g].kind}]
               /\ connPc' = Overlapped(connectors[ep])
               /\ returned' = Append(returned, [endpoint |-> ep,
                                                id |-> connectors[ep]])
               /\ mgrPc' = [mgrPc EXCEPT ![g] = NoManagerCall]
               /\ mgrMu' = Unlocked
           ELSE
               /\ mgrPc' = [mgrPc EXCEPT ![g].at = "Create"]
               /\ UNCHANGED <<instances, returned, mgrMu, connPc>>
    /\ UNCHANGED <<connectors, nMgrCalls, checks>>
    /\ UNCHANGED nonManagerVars

\* NewStreamingConnector with the kind, stored under the endpoint and
\* returned.
ManagerCreate(g) ==
    /\ mgrPc[g].at = "Create"
    /\ LET ep == mgrPc[g].endpoint
           id == Len(instances) + 1
       IN  /\ instances' = Append(instances,
                  [endpoint |-> ep, gvkMap |-> {mgrPc[g].kind},
                   transport |-> "none", removed |-> FALSE])
           /\ connectors' =
                  [e \in DOMAIN connectors \cup {ep} |->
                      IF e = ep THEN id ELSE connectors[e]]
           /\ returned' = Append(returned, [endpoint |-> ep, id |-> id])
    /\ mgrPc' = [mgrPc EXCEPT ![g] = NoManagerCall]
    /\ mgrMu' = Unlocked
    /\ UNCHANGED nMgrCalls
    /\ UNCHANGED connectVars
    /\ UNCHANGED nonManagerVars

\* A caller uses connector i, which it got from the manager: Connect or
\* Discover dials the connector's transport when it has none.
ManagedDial(i) ==
    /\ i \in DOMAIN instances
    /\ instances[i].transport # "open"
    /\ instances' = [instances EXCEPT ![i].transport = "open"]
    /\ UNCHANGED <<mgrMu, mgrPc, connectors, returned, nMgrCalls>>
    /\ UNCHANGED connectVars
    /\ UNCHANGED nonManagerVars

\* The loop of Close, holding the mutex: connector.Close() on every
\* connector of the map, then its delete.  failing are the endpoints
\* whose conn.Close() returns an error: StreamingConnector.Close then
\* returns before it drops the connection, and the manager logs the error.
ManagerCloseBody(g, failing) ==
    /\ mgrPc[g].at = "CloseBody"
    /\ \A ep \in failing :
           ep \in DOMAIN connectors
           /\ instances[connectors[ep]].transport = "open"
    /\ instances' =
           [i \in DOMAIN instances |->
               LET c == instances[i]
               IN  IF \E ep \in DOMAIN connectors : connectors[ep] = i
                   THEN [c EXCEPT !.removed = TRUE,
                                  !.transport =
                                      IF c.transport = "open"
                                         /\ c.endpoint \notin failing
                                      THEN "closed" ELSE c.transport]
                   ELSE c]
    /\ connectors' = <<>>
    /\ mgrPc' = [mgrPc EXCEPT ![g] = NoManagerCall]
    /\ mgrMu' = Unlocked
    /\ UNCHANGED <<returned, nMgrCalls>>
    /\ UNCHANGED connectVars
    /\ UNCHANGED nonManagerVars

\* Caller w calls Connect, with an object of kind k, on connector i,
\* which the manager returned: c.mu.Lock() returns once no other Connect
\* on the connector holds it, and the read of c.gvkMap begins.
ConnectBegin(w, i, k) ==
    /\ connPc[w].at = "idle"
    /\ \E n \in DOMAIN returned : returned[n].id = i
    /\ \A v \in Callers : ~(connPc[v].at = "Check" /\ connPc[v].id = i)
    /\ Len(checks) + Cardinality({v \in Callers : connPc[v].at = "Check"})
           < MaxConnectChecks
    /\ connPc' = [connPc EXCEPT ![w] =
                     [at |-> "Check", id |-> i, kind |-> k, raced |-> FALSE]]
    /\ UNCHANGED <<mgrMu, mgrPc, connectors, instances, returned, nMgrCalls,
                   checks>>
    /\ UNCHANGED nonManagerVars

\* What the check of Connect can find: the answer the map gives, or, when
\* a write of the map overlapped the read, whatever the data race gives.
CheckOutcomes(call, allowed) ==
    IF call.raced THEN {"accepted", "rejected", "fault"}
    ELSE IF KindSupported(allowed, call.kind) THEN {"accepted"}
    ELSE {"rejected"}

\* The check ends for caller w: an accepted Connect goes on to dial the
\* transport if the connector has none, and the deferred Unlock runs.
ConnectCheck(w, outcome) ==
    LET call == connPc[w]
    IN
    /\ call.at = "Check"
    /\ outcome \in CheckOutcomes(call, instances[call.id].gvkMap)
    /\ checks' = Append(checks, [id |-> call.id, kind |-> call.kind,
                                 raced |-> call.raced, outcome |-> outcome])
    /\ instances' = IF outcome = "accepted"
                    THEN [instances EXCEPT ![call.id].transport = "open"]
                    ELSE instances
    /\ connPc' = [connPc EXCEPT ![w] = NoConnectCall]
    /\ UNCHANGED <<mgrMu, mgrPc, connectors, returned, nMgrCalls>>
    /\ UNCHANGED nonManagerVars

ManagerNext ==
    \/ \E g \in Goroutines, ep \in ManagerEndpoints, k \in RegisteredKinds :
           ManagerGet(g, ep, k)
    \/ \E g \in Goroutines : ManagerClose(g)
    \/ \E g \in Goroutines : ManagerLock(g)
    \/ \E g \in Goroutines : ManagerLookup(g)
    \/ \E g \in Goroutines : ManagerCreate(g)
    \/ \E i \in 1 .. MaxManagerCalls : ManagedDial(i)
    \/ \E g \in Goroutines, failing \in SUBSET ManagerEndpoints :
           ManagerCloseBody(g, failing)
    \/ \E w \in Callers, i \in 1 .. MaxManagerCalls, k \in RegisteredKinds :
           ConnectBegin(w, i, k)
    \/ \E w \in Callers, o \in {"accepted", "rejected", "fault"} :
           ConnectCheck(w, o)

\* --------------------------------- controller: configuration, startup

\* Names and endpoints a provider entry of a configuration can carry.
ProviderNames == {"", "aws", "gcp"}

Endpoints == {"", "localhost:50051"}

ProviderConfigs == [name : ProviderNames, endpoint : Endpoints]

\* The provider lists of at most n entries.
RECURSIVE ProviderLists(_)
ProviderLists(n) ==
    IF n = 0 THEN {<<>>}
    ELSE ProviderLists(n - 1)
         \cup {Append(l, p) : l \in ProviderLists(n - 1), p \in ProviderConfigs}

\* An error of ValidateConfig and what its message carries: the index for
\* a provider without name, the name for a provider without endpoint.
ConfigError(err, index, name) == [err |-> err, index |-> index, name |-> name]

ConfigValid == ConfigError("ok", -1, "")

\* A check that does not look at the endpoint.
ProviderErrorNameOnly(i, provider) ==
    IF provider.name = "" THEN ConfigError("NoName", i, "") ELSE ConfigValid

\* The body of ValidateConfig's loop for the provider at (Go) index i.
ProviderError(i, provider) ==
    IF provider.name = "" THEN ConfigError("NoName", i, "")
    ELSE IF provider.endpoint = "" THEN ConfigError("NoEndpoint", -1,
                                                    provider.name)
    ELSE ConfigValid

\* ValidateConfig's loop from the provider at position pos on.
RECURSIVE ValidateFrom(_, _)
ValidateFrom(providers, pos) ==
    IF pos > Len(providers) THEN ConfigValid
    ELSE IF ProviderError(pos - 1, providers[pos]) # ConfigValid
         THEN ProviderError(pos - 1, providers[pos])
    ELSE ValidateFrom(providers, pos + 1)

ValidateConfig(providers) ==
    IF Len(providers) = 0 THEN ConfigError("NoProviders", -1, "")
    ELSE ValidateFrom(providers, 1)

Unchecked == ConfigError("unchecked", -1, "")

\* No configuration is part of the run.
NoStartup ==
    /\ config = <<>>
    /\ validateErr = Unchecked
    /\ buildErr = "done"
    /\ managerCreated = FALSE
    /\ providersCreated = 0

\* A configuration has been loaded (json.Unmarshal accepts any provider
\* list); nothing has been built.
ConfigLoaded ==
    /\ config \in ProviderLists(MaxProviders)
    /\ validateErr = Unchecked
    /\ buildErr = "none"
    /\ managerCreated = FALSE
    /\ providersCreated = 0

\* A caller runs ValidateConfig on the configuration.
Validate ==
    /\ validateErr = Unchecked
    /\ validateErr' = ValidateConfig(config)
    /\ UNCHANGED <<config, buildErr, managerCreated, providersCreated>>
    /\ UNCHANGED nonStartupVars

\* DynamicControllerBuilder.Build: scheme, manager, health checks, engine,
\* one NewProvider per configured provider, then Setup of each.  fail names
\* the first step that fails, if any; at is the provider at which
\* NewProvider ("provider") or Provider.Setup ("setup") fails.
Build(fail, at) ==
    /\ buildErr = "none"
    /\ fail \in {"provider", "setup"} => at \in DOMAIN config
    /\ fail \notin {"provider", "setup"} => at = 0
    /\ buildErr' = CASE fail = "scheme"   -> "SchemeError"
                     [] fail = "manager"  -> "ManagerError"
                     [] fail = "healthz"  -> "HealthCheckError"
                     [] fail = "engine"   -> "EngineError"
                     [] fail = "provider" -> "ProviderError"
                     [] fail = "setup"    -> "SetupError"
                     [] OTHER             -> "ok"
    /\ managerCreated' = (fail \notin {"scheme", "manager"})
    /\ providersCreated' =
           IF fail \in {"scheme", "manager", "healthz", "engine"} THEN 0
           ELSE IF fail = "provider" THEN at - 1
           ELSE Len(config)
    /\ UNCHANGED <<config, validateErr>>
    /\ UNCHANGED nonStartupVars

BuildFailures == {"none", "scheme", "manager", "healthz", "engine",
                  "provider", "setup"}

StartupNext ==
    \/ Validate
    \/ \E f \in BuildFailures, at \in 0 .. MaxProviders : Build(f, at)

\* ------------------------------------------ controller: one reconcile

\* What store.Get can find for a key: nothing, or an object with or
\* without a deletion timestamp.
NotFound == [found |-> FALSE, deleting |-> FALSE]

StoreObjects == {NotFound} \cup [found : {TRUE}, deleting : BOOLEAN]

\* The observations a session's Observe can return.
Observations == [exists : BOOLEAN, upToDate : BOOLEAN]

\* An action that creates whatever is not up to date.
DecideActionCreateOnDrift(deleting, obs) ==
    IF deleting THEN "Delete"
    ELSE IF ~obs.exists \/ ~obs.upToDate THEN "Create"
    ELSE "None"

\* The action of a reconcile, from the deletion timestamp and the
\* observation.
DecideAction(deleting, obs) ==
    IF deleting THEN "Delete"
    ELSE IF ~obs.exists THEN "Create"
    ELSE IF ~obs.upToDate THEN "Update"
    ELSE "None"

\* No reconciler worker is part of the run.
NoReconciler ==
    /\ object = NotFound
    /\ recPc = "off"
    /\ recCalls = <<>>
    /\ observation = Nil
    /\ recFailed = "none"
    /\ nReconciles = 0

\* A worker waits for its first key.
WorkerInit ==
    /\ object = NotFound
    /\ recPc = "idle"
    /\ recCalls = <<>>
    /\ observation = Nil
    /\ recFailed = "none"
    /\ nReconciles = 0

\* The worker takes a key off the queue and reads its object: a key
\* without object is dropped, a failed read requeues the key.
Dequeue(obj, fail) ==
    /\ recPc = "idle"
    /\ nReconciles < MaxReconciles
    /\ nReconciles' = nReconciles + 1
    /\ object' = IF fail THEN NotFound ELSE obj
    /\ recCalls' = <<>>
    /\ observation' = Nil
    /\ recFailed' = IF fail THEN "get" ELSE "none"
    /\ recPc' = IF ~fail /\ obj.found THEN "got" ELSE "idle"
    /\ UNCHANGED nonReconcileVars

\* session = Connector.Connect(object); on error the key is requeued.
ReconcileConnect(fail) ==
    /\ recPc = "got"
    /\ recCalls' = Append(recCalls, "Connect")
    /\ recFailed' = IF fail THEN "connect" ELSE recFailed
    /\ recPc' = IF fail THEN "idle" ELSE "connected"
    /\ UNCHANGED <<object, observation, nReconciles>>
    /\ UNCHANGED nonReconcileVars

\* obs = session.Observe(object); on error disconnect and requeue.
ReconcileObserve(fail, obs) ==
    /\ recPc = "connected"
    /\ recCalls' = Append(recCalls, "Observe")
    /\ observation' = IF fail THEN Nil ELSE obs
    /\ recFailed' = IF fail THEN "observe" ELSE recFailed
    /\ recPc' = IF fail THEN "closing" ELSE "observed"
    /\ UNCHANGED <<object, nReconciles>>
    /\ UNCHANGED nonReconcileVars

\* The decided action is invoked on the session, if there is one.
ReconcileAct(fail) ==
    /\ recPc = "observed"
    /\ LET action == DecideAction(object.deleting, observation)
       IN  /\ action = "None" => ~fail
           /\ recCalls' = IF action = "None" THEN recCalls
                          ELSE Append(recCalls, action)
    /\ recFailed' = IF fail THEN "act" ELSE recFailed
    /\ recPc' = "closing"
    /\ UNCHANGED <<object, observation, nReconciles>>
    /\ UNCHANGED nonReconcileVars

\* session.Disconnect(), on the success and on the error path; the status
\* update and the next reconcile's scheduling follow.
ReconcileDisconnect ==
    /\ recPc = "closing"
    /\ recCalls' = Append(recCalls, "Disconnect")
    /\ recPc' = "idle"
    /\ UNCHANGED <<object, observation, recFailed, nReconciles>>
    /\ UNCHANGED nonReconcileVars

ReconcileNext ==
    \/ \E obj \in StoreObjects, fail \in BOOLEAN : Dequeue(obj, fail)
    \/ \E fail \in BOOLEAN : ReconcileConnect(fail)
    \/ \E fail \in BOOLEAN, obs \in Observations : ReconcileObserve(fail, obs)
    \/ \E fail \in BOOLEAN : ReconcileAct(fail)
    \/ ReconcileDisconnect

\* ------------------------------------------ controller: StoppableSource

EventTypes == {"Create", "Update", "Delete"}

\* A predicate, by what it answers to the events of each type.
Predicates == [EventTypes -> BOOLEAN]

\* The predicate lists of at most n entries.
RECURSIVE PredicateLists(_)
PredicateLists(n) ==
    IF n = 0 THEN {<<>>}
    ELSE PredicateLists(n - 1)
         \cup {Append(l, p) : l \in PredicateLists(n - 1), p \in Predicates}

\* What an informer hands to a handler function: a client.Object, a
\* DeletedFinalStateUnknown tombstone that carries a client.Object or
\* something else, or a value of another type.
Payloads == {"object", "tombstone", "tombstoneOther", "other"}

NoRegistration == "none"

\* error values: nil is the empty sequence, errors.Wrap(err, msg) puts the
\* message before the cause.
NoError == <<>>

Wrap(err, msg) == <<msg>> \o err

ErrBoom == <<"boom">>

NoEvent == [type |-> "none", carried |-> FALSE]

\* Stop's guard without the look at the informer.
ShouldRemoveWhileStopped(registration, isStopped) ==
    registration # NoRegistration

\* Stop goes on to RemoveEventHandler unless s.reg is nil or the informer
\* has stopped.
ShouldRemove(registration, isStopped) ==
    ~(registration = NoRegistration \/ isStopped)

\* A predicate loop that asks the first predicate only.
AcceptsFirstOnly(ps, type) == ps = <<>> \/ ps[1][type]

\* The predicate loop: the first predicate that rejects ends it.
RECURSIVE Accepts(_, _)
Accepts(ps, type) ==
    IF ps = <<>> THEN TRUE
    ELSE IF ~Head(ps)[type] THEN FALSE
    ELSE Accepts(Tail(ps), type)

\* The type switch of onDelete and the type assertions of onAdd and
\* onUpdate: does the value carry a client.Object?
CarriesObject(type, payload) ==
    \/ payload = "object"
    \/ type = "Delete" /\ payload = "tombstone"

\* No StoppableSource is part of the run.
NoSource ==
    /\ reg = NoRegistration
    /\ informerStopped = TRUE
    /\ predicates = <<>>
    /\ removeCalls = 0
    /\ removeErr = NoError
    /\ stopResult = <<"off">>
    /\ lastEvent = NoEvent
    /\ handled = <<>>
    /\ queueLen = 0
    /\ sourceOp = "none"
    /\ nSourceSteps = 0
    /\ informerRegs = 0

\* NewStoppableSource(inf, h, ps...) over a running informer.
NewStoppableSource ==
    /\ reg = NoRegistration
    /\ informerStopped = FALSE
    /\ predicates \in PredicateLists(MaxPredicates)
    /\ removeCalls = 0
    /\ removeErr = NoError
    /\ stopResult = <<"none">>
    /\ lastEvent = NoEvent
    /\ handled = <<>>
    /\ queueLen = 0
    /\ sourceOp = "none"
    /\ nSourceSteps = 0
    /\ informerRegs = 0

\* One more call, of the given name.
SourceStep(op) ==
    /\ nSourceSteps < MaxSourceSteps
    /\ nSourceSteps' = nSourceSteps + 1
    /\ sourceOp' = op

\* StoppableSource.Start: AddEventHandler, whose registration is kept
\* unless it failed.
SourceStart(fail) ==
    /\ SourceStep("Start")
    /\ reg' = IF fail THEN reg ELSE "registration"
    /\ informerRegs' = informerRegs + (IF fail THEN 0 ELSE 1)
    /\ UNCHANGED <<informerStopped, predicates, removeCalls, removeErr,
                   stopResult, lastEvent, handled, queueLen>>
    /\ UNCHANGED nonSourceVars

\* The informer stops.
InformerStop ==
    /\ ~informerStopped
    /\ informerStopped' = TRUE
    /\ UNCHANGED <<reg, predicates, removeCalls, removeErr, stopResult,
                   lastEvent, handled, queueLen, sourceOp, nSourceSteps,
                   informerRegs>>
    /\ UNCHANGED nonSourceVars

\* StoppableSource.Stop.
SourceStop(fail) ==
    /\ SourceStep("Stop")
    /\ IF ShouldRemove(reg, informerStopped) THEN
           /\ removeCalls' = removeCalls + 1
           /\ removeErr' = IF fail THEN ErrBoom ELSE NoError
           /\ stopResult' = IF fail
                            THEN Wrap(ErrBoom, "cannot remove event handler")
                            ELSE NoError
           /\ reg' = IF fail THEN reg ELSE NoRegistration
           /\ informerRegs' = informerRegs - (IF fail THEN 0 ELSE 1)
       ELSE
           /\ ~fail
           /\ stopResult' = NoError
           /\ UNCHANGED <<reg, removeCalls, removeErr, informerRegs>>
    /\ UNCHANGED <<informerStopped, predicates, lastEvent, handled,
                   queueLen>>
    /\ UNCHANGED nonSourceVars

\* resourceEventHandler.onAdd / onUpdate / onDelete for an event of the
\* given type: carried says whether every value of the event passed the
\* type switch.  The handler is called with the queue and may enqueue a
\* request.
OnEvent(type, carried, unknown, enqueue) ==
    /\ SourceStep("On" \o type)
    /\ informerRegs > 0 /\ ~informerStopped
    /\ lastEvent' = [type |-> type, carried |-> carried]
    /\ IF carried /\ Accepts(predicates, type) THEN
           /\ handled' = Append(handled, [type |-> type,
                                          DeleteStateUnknown |-> unknown])
           /\ queueLen' = queueLen + (IF enqueue THEN 1 ELSE 0)
       ELSE
           /\ ~enqueue
           /\ UNCHANGED <<handled, queueLen>>
    /\ UNCHANGED <<reg, informerStopped, predicates, removeCalls, removeErr,
                   stopResult, informerRegs>>
    /\ UNCHANGED nonSourceVars

OnAdd(payload, enqueue) ==
    /\ payload \in {"object", "other"}
    /\ OnEvent("Create", CarriesObject("Create", payload), FALSE, enqueue)

OnUpdate(old, new, enqueue) ==
    /\ {old, new} \subseteq {"object", "other"}
    /\ OnEvent("Update", CarriesObject("Update", old)
                         /\ CarriesObject("Update", new), FALSE, enqueue)

OnDelete(payload, enqueue) ==
    OnEvent("Delete", CarriesObject("Delete", payload),
            payload = "tombstone", enqueue)

SourceNext ==
    \/ \E fail \in BOOLEAN : SourceStart(fail)
    \/ InformerStop
    \/ \E fail \in BOOLEAN : SourceStop(fail)
    \/ \E p \in Payloads, enq \in BOOLEAN : OnAdd(p, enq)
    \/ \E o, n \in Payloads, enq \in BOOLEAN : OnUpdate(o, n, enq)
    \/ \E p \in Payloads, enq \in BOOLEAN : OnDelete(p, enq)

\* ------------------------------------------------------ specifications

\* The dynamic controller's other parts are not part of the run.
\* No goroutines that share state are part of the run.
ProcessIdle ==
    NoRegistryUsers /\ NoCacheCalls /\ NoUnaryServer /\ NoShutdown

DynamicIdle ==
    NoStartup /\ NoReconciler /\ NoManager /\ NoSource /\ ProcessIdle

Init ==
    /\ ServerInit /\ ClientInit /\ ThreadInit /\ LegacyInit /\ NoProvider
    /\ DynamicIdle

\* One server session serving the requests of its stream.
SpecServer == Init /\ [][ServerNext]_vars

\* One connector and its sessions driven by the reconciler's calls.
SpecClient == Init /\ [][ClientNext]_vars

\* One connector called by several goroutines at once, statement by
\* statement.
SpecConnector == Init /\ [][ThreadNext]_vars

\* One ProviderServer from its construction on: handlers are registered
\* and Discover is called.
RegistryInit ==
    /\ NewProviderServer /\ SessionInit /\ ClientInit /\ ThreadInit
    /\ LegacyInit /\ NoProvider /\ DynamicIdle

SpecRegistry == RegistryInit /\ [][RegistryNext]_vars

\* One caching LegacyServer serving unary calls until the provider server
\* shuts down.
SpecLegacy == Init /\ [][LegacyNext]_vars

SetupInit ==
    /\ ServerInit /\ ConnectorInit /\ ThreadInit /\ LegacyInit /\ NewProvider
    /\ DynamicIdle

\* One Provider from NewProvider through its Setup call.
SpecSetup == SetupInit /\ [][SetupNext]_vars

\* The streaming layer at rest.
StreamingIdle ==
    ServerInit /\ ClientInit /\ ThreadInit /\ LegacyInit /\ NoProvider

StartupInit ==
    /\ StreamingIdle /\ ConfigLoaded /\ NoReconciler /\ NoManager /\ NoSource
    /\ ProcessIdle

\* The dynamic controller from a loaded configuration: ValidateConfig and
\* Build.
SpecStartup == StartupInit /\ [][StartupNext]_vars

ReconcileInit ==
    /\ StreamingIdle /\ NoStartup /\ WorkerInit /\ NoManager /\ NoSource
    /\ ProcessIdle

\* One reconciler worker taking keys off its queue.
SpecReconcile == ReconcileInit /\ [][ReconcileNext]_vars

ManagerInit ==
    /\ StreamingIdle /\ NoStartup /\ NoReconciler /\ NewConnectorManager
    /\ NoSource /\ ProcessIdle

\* One ConnectorManager called from two goroutines.
SpecManager == ManagerInit /\ [][ManagerNext]_vars

SourceInit ==
    /\ StreamingIdle /\ NoStartup /\ NoReconciler /\ NoManager
    /\ NewStoppableSource /\ ProcessIdle

\* One StoppableSource: Start, Stop and the events of its informer.
SpecSource == SourceInit /\ [][SourceNext]_vars

\* The controller side is not part of the run.
ControllerIdle == NoStartup /\ NoReconciler /\ NoManager /\ NoSource

\* A server on which one kind has been registered.
OneHandler ==
    /\ handlers = [k \in {"Widget"} |-> "hA"]
    /\ RegistryIdle
    /\ SessionInit

LockInit ==
    /\ OneHandler /\ ClientInit /\ ThreadInit /\ LegacyInit /\ NoProvider
    /\ ControllerIdle /\ RegistryUsersInit /\ NoCacheCalls /\ NoUnaryServer
    /\ NoShutdown

\* The goroutines of one server using its handler registry: a
\* registration, the locked lookups, and the lookups of a legacy server
\* that was given the map.
SpecLock == LockInit /\ [][LockNext]_vars

CacheCallsInit ==
    /\ StreamingIdle /\ ControllerIdle /\ NoRegistryUsers /\ CacheInit
    /\ NoUnaryServer /\ NoShutdown

\* Two goroutines of the caching legacy server in getOrCreateClient.
SpecCache == CacheCallsInit /\ [][CacheNext]_vars

UnaryServerInit ==
    /\ StreamingIdle /\ ControllerIdle /\ NoRegistryUsers /\ NoCacheCalls
    /\ UnaryInit /\ NoShutdown

\* One legacy server without cache serving unary calls.
SpecUnary == UnaryServerInit /\ [][UnaryNext]_vars

ShutdownInit ==
    /\ StreamingIdle /\ ControllerIdle /\ NoRegistryUsers /\ NoCacheCalls
    /\ NoUnaryServer /\ StartReturned

\* A started provider server, its streams and its shutdown.  The server's
\* own goroutines keep running; nothing makes a client send or leave.
SpecShutdown ==
    /\ ShutdownInit
    /\ [][ShutdownNext]_vars
    /\ WF_vars(GracefulStopBegin)
    /\ WF_vars(GracefulStopReturn)

\* ------------------------------------------- server: claims C1 .. C8

\* The request the handler has just read in this step, if it read one.
Received == Len(recvd') = Len(recvd) + 1

LastRequest == recvd'[Len(recvd')]

\* No Connect has succeeded on the session so far: no Response.Connect
\* has gone out.
NoConnectYet == \A i \in DOMAIN sent : sent[i] # "Connect"

\* The session is Active: a client is bound.
Active == phase = "running" /\ connected /\ externalClient # Nil

\* The external clients on which Disconnect has not been called.
OpenClients == {i \in DOMAIN clients : clients[i].closed = 0}

\* C1: an Observe, Create, Update or Delete read before any Connect has
\* succeeded ends the session with the pre-connect error; no response is
\* sent for it, no handler factory and no external-client method is called.
C1_PreconnectRejected ==
    [][ (phase = "running" /\ NoConnectYet /\ Received
         /\ LastRequest.op \in CrudOps)
        => /\ phase' = "returned"
           /\ retErr' = "ProtoPreconnect"
           /\ sent' = sent
           /\ factoryCalls' = factoryCalls
           /\ calls' = calls
           /\ clients' = clients ]_vars

\* A session whose first request was Observe(Widget) was ended that way.
C1_Witness ==
    /\ phase = "returned"
    /\ retErr = "ProtoPreconnect"
    /\ NoConnectYet
    /\ Len(recvd) = 1
    /\ recvd[1].op = "Observe"
    /\ recvd[1].kind = "Widget"

\* Every call made on an external client carried an object of the kind
\* under which that client's handler was registered.
RoutedKindPinned ==
    \A i \in DOMAIN calls :
        /\ calls[i].client \in DOMAIN clients
        /\ calls[i].kind = clients[calls[i].client].kind
        /\ calls[i].kind \in DOMAIN handlers

\* C2 as stated: every object passed to the bound client has the pinned
\* kind, and a request on an Active session whose resource kind differs
\* from the pinned kind ends the session with the kind-mismatch error
\* without the operation being called.
C2_Original ==
    /\ []RoutedKindPinned
    /\ [][ (Active /\ Received /\ LastRequest.op \in CrudOps
            /\ LastRequest.kind # NoKind
            /\ LastRequest.kind # resourceType)
           => /\ phase' = "returned"
              /\ retErr' = "ProtoKindMismatch"
              /\ calls' = calls ]_vars

\* C2 amended: every object passed to the bound client has the pinned
\* kind; a request on an Active session whose resource kind differs from
\* the pinned kind ends the session without the operation being called,
\* with the kind-mismatch error when the resource decodes and with the
\* decode error when it does not (the resource is decoded before its kind
\* is compared).
C2_KindPinned ==
    /\ []RoutedKindPinned
    /\ [][ (Active /\ Received /\ LastRequest.op \in CrudOps
            /\ LastRequest.kind # NoKind
            /\ LastRequest.kind # resourceType)
           => /\ phase' = "returned"
              /\ calls' = calls
              /\ retErr' = IF LastRequest.decodes
                           THEN "ProtoKindMismatch"
                           ELSE "CodecDecode" ]_vars

\* Connect(Widget), Observe(Widget) reached the client, Observe(Gadget)
\* ended the session with the kind-mismatch error.
C2_Witness ==
    /\ phase = "returned"
    /\ retErr = "ProtoKindMismatch"
    /\ Len(recvd) = 3
    /\ recvd[1].op = "Connect" /\ recvd[1].kind = "Widget"
    /\ recvd[2].op = "Observe" /\ recvd[2].kind = "Widget"
    /\ recvd[3].op = "Observe" /\ recvd[3].kind = "Gadget"
    /\ Len(calls) = 1
    /\ calls[1].kind = "Widget"

\* C3: when Session has returned, Disconnect has been called exactly once
\* on every external client the session created.
C3_ClosedExactlyOnce ==
    phase = "returned" => \A i \in DOMAIN clients : clients[i].closed = 1

\* C4: at every point at most one external client of the session is
\* un-closed, and while the session is Active the bound client is that one.
C4_AtMostOneOpenClient ==
    /\ Cardinality(OpenClients) <= 1
    /\ Active => OpenClients = {externalClient}

\* C5: a Disconnect read on an Active session closes the bound client and
\* the Session handler returns, so that no later request is processed.
C5_DisconnectReturns ==
    [][ (Active /\ Received /\ LastRequest.op = "Disconnect")
        => /\ clients'[externalClient].closed
                = clients[externalClient].closed + 1
           /\ phase' = "returned" ]_vars

\* C6: responses are in lockstep with requests: the i-th response is the
\* variant of the i-th request, every request read while the loop runs has
\* had its response before the next is read, and at most the last request
\* (the one that ended the session) is left without one.
C6_Lockstep ==
    /\ Len(sent) <= Len(recvd)
    /\ \A i \in DOMAIN sent : sent[i] = recvd[i].op
    /\ phase = "running" => Len(sent) = Len(recvd)
    /\ phase = "returned" => Len(recvd) - Len(sent) <= 1

\* Three requests of three variants were each answered in turn.
C6_Witness ==
    /\ phase = "running"
    /\ sent = <<"Connect", "Delete", "Disconnect">>

\* C7: once a Connect has pinned the session's kind, the pinned kind does
\* not change for the rest of the stream.
C7_PinnedKindStable ==
    [][ resourceType # NoKind => resourceType' = resourceType ]_vars

\* C8 as stated: a Connect whose resource kind has no registered handler
\* ends the session with the handler-not-found error; no external client
\* is created or bound and no Response.Connect is sent.
C8_Original ==
    [][ (phase = "running" /\ Received /\ LastRequest.op = "Connect"
         /\ LastRequest.kind # NoKind
         /\ LastRequest.kind \notin DOMAIN handlers)
        => /\ phase' = "returned"
           /\ retErr' = "HandlerNotFound"
           /\ Len(clients') = Len(clients)
           /\ externalClient' = externalClient
           /\ factoryCalls' = factoryCalls
           /\ sent' = sent ]_vars

\* C8 amended: a Connect whose resource kind has no registered handler
\* ends the session, with the handler-not-found error when the resource
\* decodes and with the decode error when it does not (the resource is
\* decoded before the handler is looked up); no external client is created
\* or bound and no Response.Connect is sent.
C8_UnregisteredKind ==
    [][ (phase = "running" /\ Received /\ LastRequest.op = "Connect"
         /\ LastRequest.kind # NoKind
         /\ LastRequest.kind \notin DOMAIN handlers)
        => /\ phase' = "returned"
           /\ retErr' = IF LastRequest.decodes
                        THEN "HandlerNotFound"
                        ELSE "CodecDecode"
           /\ Len(clients') = Len(clients)
           /\ externalClient' = externalClient
           /\ factoryCalls' = factoryCalls
           /\ sent' = sent ]_vars

\* Connect(Sprocket), a kind the scheme knows and no handler serves,
\* ended the session with the handler-not-found error.
C8_Witness ==
    /\ phase = "returned"
    /\ retErr = "HandlerNotFound"
    /\ Len(recvd) = 1
    /\ recvd[1].op = "Connect"
    /\ recvd[1].kind = "Sprocket"
    /\ clients = <<>>
    /\ sent = <<>>

\* ------------------------------------------ client: claims C9 .. C10

\* The call made in this step, if one was made.
Called == nCalls' = nCalls + 1

\* Session s has terminated: Disconnect was called on it (c.stream is
\* nil), or an earlier call on it failed to send or receive.
Terminated(s) == sessions[s].stream = "nil" \/ sessions[s].broken

\* C9: once a client session has terminated (Disconnect was called on it,
\* or an earlier call on it failed to send or receive), every later
\* Observe, Create, Update or Delete on it returns the session-closed error
\* and sends nothing.
C9_DeadSessionRejects ==
    [][ (Called /\ lastCall'.api \in CrudOps
         /\ Terminated(lastCall'.sess))
        => /\ lastCall'.result = "SessionClosed"
           /\ sendAttempts' = sendAttempts ]_vars

\* C10: after Connector.Close() has returned successfully the transport is
\* closed, and every Connect after a Close fails, creating no new transport
\* and no session.
C10_ClosedConnectorRefuses ==
    /\ []( (lastCall.api = "Close" /\ lastCall.result = "ok")
           => /\ conn = Nil
              /\ \A t \in DOMAIN transports : transports[t] = "closed" )
    /\ [][ (closeReturned /\ Called /\ lastCall'.api = "Connect")
           => /\ lastCall'.result # "ok"
              /\ Len(transports') = Len(transports)
              /\ Len(sessions') = Len(sessions) ]_vars

\* ------------------------------------------ client: claims C11 .. C14

\* The transports that are open.
OpenTransports == {t \in DOMAIN transports : transports[t] = "open"}

\* C11: a connector has at most one transport open at any time, the one
\* c.conn refers to; a transport is created only by a Connect or Discover
\* that found no connection, so that every other Connect, racing ones
\* included, reuses the existing one.
C11_OneTransport ==
    /\ [](Cardinality(OpenTransports) <= 1 /\ OpenTransports \subseteq {conn})
    /\ [][ Len(transports') > Len(transports)
           => /\ conn = Nil
              /\ \E g \in Goroutines :
                     /\ inCall[g].api \in {"Connect", "Discover"}
                     /\ pc[g] \in {"ConnectDial", "DiscoverDial"} ]_vars

\* Two first Connects race: g1 has dialled the transport and is opening
\* its session, g2 waits for the mutex.
C11_Witness ==
    /\ nCalls = 0
    /\ pc["g1"] = "ConnectSession"
    /\ pc["g2"] = "ConnectLock"
    /\ Len(transports) = 1
    /\ conn = 1

\* C12: every request a session sends after Connect carries an object of
\* the kind pinned at Connect; an Observe, Create, Update or Delete with an
\* object of another kind returns the kind-mismatch error and sends
\* nothing.
C12_SessionKindPinned ==
    [][ (Called /\ lastCall'.api \in CrudOps
         /\ ~Terminated(lastCall'.sess))
        => /\ sendAttempts' > sendAttempts
                => lastCall'.kind = sessions[lastCall'.sess].gvk
           /\ lastCall'.kind # sessions[lastCall'.sess].gvk
                => /\ lastCall'.result = "ProtoKindMismatch"
                   /\ sendAttempts' = sendAttempts ]_vars

\* C13: Disconnect on a session leaves it closed (c.stream nil) and
\* returns success even when sending the request or receiving the reply
\* fails; a Disconnect on a session that is already closed sends nothing,
\* changes nothing and returns success.
C13_DisconnectClosesAlways ==
    [][ (Called /\ lastCall'.api = "Disconnect")
        => /\ lastCall'.result = "ok"
           /\ sessions'[lastCall'.sess].stream = "nil"
           /\ sessions[lastCall'.sess].stream = "nil"
                => /\ sendAttempts' = sendAttempts
                   /\ sessions' = sessions ]_vars

\* Connect, then a Disconnect whose exchange failed: the session is
\* closed and the call returned success.
C13_Witness ==
    /\ nCalls = 2
    /\ lastCall.api = "Disconnect"
    /\ lastCall.result = "ok"
    /\ sessions[lastCall.sess].broken
    /\ sessions[lastCall.sess].stream = "nil"

\* C14: a connector constructed with a non-empty allowed-kinds set fails a
\* Connect for a kind outside the set with ConnectorUnsupportedKind,
\* creating no transport and no session; a connector constructed with an
\* empty set turns no kind away.
C14_AllowedKinds ==
    [][ (Called /\ lastCall'.api = "Connect")
        => /\ (gvkMap # {} /\ lastCall'.kind \notin gvkMap)
                => /\ lastCall'.result = "ConnectorUnsupportedKind"
                   /\ transports' = transports
                   /\ conn' = conn
                   /\ sessions' = sessions
           /\ (gvkMap = {} \/ lastCall'.kind \in gvkMap)
                => lastCall'.result # "ConnectorUnsupportedKind" ]_vars

\* The first call on a connector for Widget alone, Connect(Gadget), was
\* turned away before anything was dialled.
C14_Witness ==
    /\ gvkMap = {"Widget"}
    /\ nCalls = 1
    /\ lastCall.api = "Connect"
    /\ lastCall.kind = "Gadget"
    /\ lastCall.result = "ConnectorUnsupportedKind"
    /\ transports = <<>>
    /\ sessions = <<>>

\* ----------------------------------------- server: claims C15 .. C17

\* The registry call made in this step, if one was made.
Registered == nRegs' = nRegs + 1 /\ lastReg'.api = "RegisterHandler"

\* C15: RegisterHandler fails when the handler is nil, when the kind
\* triple is empty, or when the kind already has a handler, and then leaves
\* the registry as it was; otherwise it succeeds and the handler becomes
\* the entry of that kind, every other entry staying as it was.
C15_RegisterHandler ==
    [][ Registered =>
        LET k == lastReg'.gvk
            h == lastReg'.handler
        IN  IF h = NilHandler \/ k = NoKind \/ k \in DOMAIN handlers
            THEN /\ lastReg'.result # "ok"
                 /\ handlers' = handlers
            ELSE /\ lastReg'.result = "ok"
                 /\ DOMAIN handlers' = DOMAIN handlers \cup {k}
                 /\ handlers'[k] = h
                 /\ \A x \in DOMAIN handlers : handlers'[x] = handlers[x]
      ]_vars

\* hB was offered for Widget, which hA already serves: the call failed and
\* hA is still the handler.
C15_Witness ==
    /\ lastReg = RegCall("RegisterHandler", "Widget", "hB",
                         "RegisterDuplicate")
    /\ handlers["Widget"] = "hA"

\* The entry (apiVersion and kind) that stands for each kind on the wire:
\* "example.org/v1" Widget, "example.org/v1beta1" Gadget, "v1" Sprocket.
WireEntry(k) ==
    CASE k = "Widget"   -> [apiVersion |-> <<"example.org", "v1">>,
                            kind |-> "Widget"]
      [] k = "Gadget"   -> [apiVersion |-> <<"example.org", "v1beta1">>,
                            kind |-> "Gadget"]
      [] k = "Sprocket" -> [apiVersion |-> <<"v1">>, kind |-> "Sprocket"]

\* A Discover result holds exactly one entry per registered kind and
\* nothing else.
OneEntryPerKind(resp) ==
    /\ Len(resp) = Cardinality(DOMAIN handlers)
    /\ \A k \in DOMAIN handlers :
           Cardinality({i \in DOMAIN resp : resp[i] = WireEntry(k)}) = 1

\* C16 as stated: Discover returns exactly one entry per registered kind
\* and nothing else, and two Discover calls with no registration in
\* between return equal results.
C16_Original ==
    \A i \in DOMAIN discoveries :
        /\ OneEntryPerKind(discoveries[i])
        /\ \A j \in DOMAIN discoveries : discoveries[i] = discoveries[j]

\* C16 amended: Discover returns exactly one entry per registered kind and
\* nothing else, and two Discover calls with no registration in between
\* return the same entries, though not always in the same order (the
\* entries come out in the order of a range over the registry map).
C16_DiscoverIdempotent ==
    \A i \in DOMAIN discoveries :
        /\ OneEntryPerKind(discoveries[i])
        /\ \A j \in DOMAIN discoveries :
               {discoveries[i][x] : x \in DOMAIN discoveries[i]}
                 = {discoveries[j][x] : x \in DOMAIN discoveries[j]}

\* With two kinds registered, one of them in the core group, Discover was
\* called twice in a row.
C16_Witness ==
    /\ DOMAIN handlers = {"Widget", "Sprocket"}
    /\ Len(discoveries) = 2

\* C17: a Delete answered on an Active session leaves the session Active
\* with the same external client bound and the same pinned kind, and no
\* client is closed by it; the server calls Disconnect on an external
\* client only when it handles a Disconnect request or when Session
\* returns.
C17_DeleteKeepsSession ==
    /\ [][ (Active /\ Received /\ LastRequest.op = "Delete"
            /\ Len(sent') = Len(sent) + 1)
           => /\ phase' = "running"
              /\ connected'
              /\ externalClient' = externalClient
              /\ resourceType' = resourceType
              /\ clients' = clients ]_vars
    /\ [][ (\E i \in DOMAIN clients : clients'[i].closed # clients[i].closed)
           => \/ Received /\ LastRequest.op = "Disconnect"
              \/ phase' = "returned" ]_vars

\* Connect then Delete were answered; the session still runs with its
\* first client bound and open.
C17_Witness ==
    /\ sent = <<"Connect", "Delete">>
    /\ phase = "running"
    /\ connected
    /\ externalClient = 1
    /\ clients[1].closed = 0

\* ------------------------------------ legacy server: claims C18 .. C19

\* The unary call served in this step, if one was served.
Served == nLegacy' = nLegacy + 1

\* The cached clients that were connected for resource name of kind k.
CachedFor(name, k) ==
    {c \in DOMAIN legacyClients :
        /\ legacyClients[c].name = name
        /\ legacyClients[c].kind = k
        /\ \E key \in DOMAIN connections : connections[key] = c}

\* C18: when a Delete for a resource has been handled, every external
\* client the server had cached for that resource during earlier calls has
\* been disconnected and is no longer in the cache.
C18_DeleteReleasesClients ==
    [][ (Served /\ lastLegacy'.op = "Delete" /\ lastLegacy'.result = "ok")
        => \A c \in CachedFor(lastLegacy'.name, lastLegacy'.kind) :
              /\ legacyClients'[c].disconnects >= 1
              /\ \A key \in DOMAIN connections' : connections'[key] # c
      ]_vars

\* C19: when the provider server shuts down, every external client held
\* in the legacy server's cache is disconnected, exactly once, and the
\* cache is left empty.
C19_ShutdownReleasesClients ==
    [][ (~stopped /\ stopped')
        => /\ connections' = NoConnections
           /\ \A key \in DOMAIN connections :
                  legacyClients'[connections[key]].disconnects = 1 ]_vars

\* -------------------------------------------- controller: claim C20

\* The resource types for which a controller was started, in order.
StartedTypes == [i \in DOMAIN started |-> started[i].type]

\* C20: when the Discover call of Setup fails or runs out of time, Setup
\* goes on to its controller loop with the configured kinds and returns no
\* error on that account: it starts a controller for each configured kind
\* in turn, and returns an error only if starting one of them fails.
C20_DiscoverFailureNotFatal ==
    /\ [][ (setupPc = "new" /\ setupPc' # "new" /\ discoverErr' # "ok")
           => /\ setupPc' = "controllers"
              /\ setupErr' = "none"
              /\ resourceTypes' = configured ]_vars
    /\ []( (discoverErr \notin {"none", "ok"} /\ setupPc = "done")
           => /\ setupErr \in {"ok", "EngineStart", "EngineWatch"}
              /\ setupErr = "ok" => StartedTypes = configured
              /\ \A i \in DOMAIN started : started[i].type = configured[i] )

\* Discover ran out of time; Setup returned nil with the controllers of
\* both configured kinds started.
C20_Witness ==
    /\ discoverErr = "DeadlineExceeded"
    /\ setupPc = "done"
    /\ setupErr = "ok"
    /\ Len(configured) = 2
    /\ StartedTypes = configured

\* ------------------------------------- controller: claims C21 .. C22

\* The elements of a list.
Range(list) == {list[i] : i \in DOMAIN list}

\* C21: once Setup has merged a successful Discover result, the
\* provider's resource types are the union of the configured and the
\* discovered ones, each (group, version, kind) triple being listed
\* exactly once.
C21_MergedTypesUnique ==
    [][ (setupPc = "new" /\ setupPc' # "new" /\ discoverErr' = "ok")
        => /\ Range(resourceTypes')
                  = Range(configured) \cup Range(discoveredTypes')
           /\ \A i, j \in DOMAIN resourceTypes' :
                  i # j => ResourceTypeToGVK(resourceTypes'[i])
                             # ResourceTypeToGVK(resourceTypes'[j]) ]_vars

\* C22: the controllers started with the engine for distinct kind triples
\* have distinct names, also when the triples differ only in version.
C22_ControllerNamesUnique ==
    \A i, j \in DOMAIN started :
        ResourceTypeToGVK(started[i].type) # ResourceTypeToGVK(started[j].type)
            => started[i].name # started[j].name

\* ------------------------------------- controller: claims C23 .. C24

\* C23: building the dynamic controller from a configuration whose
\* providers list is empty fails with the configuration-invalid error
\* before a manager, a provider or a connector is created.
C23_EmptyProvidersRejected ==
    [][ (buildErr = "none" /\ buildErr' # "none" /\ config = <<>>)
        => /\ buildErr' = "ConfigInvalid"
           /\ ~managerCreated'
           /\ providersCreated' = 0 ]_vars

\* The positions of the providers that lack a name or an endpoint.
Offending ==
    {i \in DOMAIN config : config[i].name = "" \/ config[i].endpoint = ""}

\* C24: ValidateConfig returns no error exactly when the providers list is
\* non-empty and every provider has a name and an endpoint; otherwise, for
\* a non-empty list, the error is about the first offending provider in
\* list order and carries its index when it has no name and its name when
\* it has no endpoint.
C24_ValidateConfig ==
    validateErr # Unchecked =>
        /\ validateErr.err = "ok" <=> (config # <<>> /\ Offending = {})
        /\ config = <<>> => validateErr.err = "NoProviders"
        /\ Offending # {} =>
               LET first == CHOOSE i \in Offending :
                                \A j \in Offending : i <= j
               IN  IF config[first].name = ""
                   THEN validateErr = ConfigError("NoName", first - 1, "")
                   ELSE validateErr = ConfigError("NoEndpoint", -1,
                                                  config[first].name)

\* Of two offending providers the first, which has a name and no
\* endpoint, was reported, not the nameless second.
C24_Witness ==
    /\ Len(config) = 2
    /\ config[1] = [name |-> "aws", endpoint |-> ""]
    /\ config[2] = [name |-> "", endpoint |-> "localhost:50051"]
    /\ validateErr = ConfigError("NoEndpoint", -1, "aws")

\* ------------------------------------------------ controller: claim C25

\* The worker has finished the reconcile of a key whose object exists.
Reconciled == recPc = "idle" /\ nReconciles > 0 /\ object.found

\* How often a call is among those of this reconcile.
Times(call) == Cardinality({i \in DOMAIN recCalls : recCalls[i] = call})

\* C25: the reconcile of a key whose object exists calls Connect once and
\* first; when no call fails it then calls Observe, then the one action
\* the observation and the deletion timestamp select (Delete if deletion
\* is pending, else Create if the resource does not exist, else Update if
\* it is not up to date, else none), then Disconnect; and on every path
\* on which Connect succeeded Disconnect is the last call and made once.
C25_ReconcileCalls ==
    Reconciled =>
        /\ recCalls # <<>> /\ recCalls[1] = "Connect" /\ Times("Connect") = 1
        /\ recFailed # "connect" =>
               /\ Len(recCalls) >= 3
               /\ recCalls[2] = "Observe" /\ Times("Observe") = 1
               /\ recCalls[Len(recCalls)] = "Disconnect"
               /\ Times("Disconnect") = 1
        /\ recFailed \in {"none", "act"} =>
               recCalls = <<"Connect", "Observe">>
                          \o (IF object.deleting THEN <<"Delete">>
                              ELSE IF ~observation.exists THEN <<"Create">>
                              ELSE IF ~observation.upToDate THEN <<"Update">>
                              ELSE <<>>)
                          \o <<"Disconnect">>

\* An existing resource that was not up to date has been updated.
C25_Witness ==
    /\ Reconciled
    /\ recFailed = "none"
    /\ observation = [exists |-> TRUE, upToDate |-> FALSE]
    /\ recCalls = <<"Connect", "Observe", "Update", "Disconnect">>

\* ------------------------------------- client: claims C26 .. C27

\* C26: the manager holds at most one connector per endpoint, the one its
\* map names; a GetOrCreateConnector call, racing ones included, returns
\* the connector held for its endpoint, so that the calls for one endpoint
\* get the same instance, and a connector is created only while none is
\* held for its endpoint.
C26_OneConnectorPerEndpoint ==
    /\ [](/\ \A i, j \in Held :
                 instances[i].endpoint = instances[j].endpoint => i = j
          /\ \A n, o \in DOMAIN returned :
                 /\ returned[n].endpoint = returned[o].endpoint
                 /\ returned[n].id \in Held /\ returned[o].id \in Held
                 => returned[n].id = returned[o].id)
    /\ [][ Len(returned') > Len(returned)
           => LET r == returned'[Len(returned')]
              IN  /\ r.id \in DOMAIN instances'
                  /\ instances'[r.id].endpoint = r.endpoint
                  /\ ~instances'[r.id].removed
                  /\ r.endpoint \in DOMAIN connectors'
                  /\ connectors'[r.endpoint] = r.id ]_vars
    /\ [][ Len(instances') > Len(instances)
           => \A i \in Held :
                  instances[i].endpoint # instances'[Len(instances')].endpoint
       ]_vars

\* Two calls for one endpoint, from two goroutines, have returned the
\* one connector the manager created, which now has both kinds.
C26_Witness ==
    /\ Len(instances) = 1
    /\ instances[1].gvkMap = RegisteredKinds
    /\ Len(returned) = 2
    /\ returned[1] = [endpoint |-> "ep1", id |-> 1]
    /\ returned[2] = [endpoint |-> "ep1", id |-> 1]
    /\ \A g \in Goroutines : mgrPc[g].at = "idle"

StopReturned == nSourceSteps' > nSourceSteps /\ sourceOp' = "Stop"

\* C28: a Stop of a source without registration, or whose informer has
\* stopped, returns nil and calls RemoveEventHandler not at all; any other
\* Stop calls it once, for the registered handler, and returns nil,
\* dropping the registration, when the removal succeeded, and the
\* removal's error wrapped as "cannot remove event handler" when it
\* failed.
C28_Stop ==
    [][ StopReturned =>
          IF reg = NoRegistration \/ informerStopped
          THEN /\ stopResult' = <<>>
               /\ removeCalls' = removeCalls
               /\ reg' = reg
          ELSE /\ removeCalls' = removeCalls + 1
               /\ IF removeErr' = <<>>
                  THEN stopResult' = <<>> /\ reg' = NoRegistration
                  ELSE /\ stopResult' = <<"cannot remove event handler">>
                                        \o removeErr'
                       /\ reg' = reg ]_vars

\* A registered source whose informer had stopped was stopped: nothing
\* was removed and Stop returned nil.
C28_Witness ==
    /\ sourceOp = "Stop"
    /\ reg = "registration"
    /\ informerStopped
    /\ removeCalls = 0
    /\ stopResult = <<>>

\* An event is delivered to the handler functions in this step.
Delivered ==
    /\ nSourceSteps' > nSourceSteps
    /\ sourceOp' \in {"OnCreate", "OnUpdate", "OnDelete"}

\* Every configured predicate accepts the event delivered in this step.
AllAccept == \A i \in DOMAIN predicates : predicates[i][lastEvent'.type]

\* The handler has been called in this step, once, for the event's type.
HandlerCalled ==
    /\ Len(handled') = Len(handled) + 1
    /\ handled'[Len(handled')].type = lastEvent'.type

C30_FirstDisconnectRejected ==
    [][ (phase = "running" /\ recvd = <<>> /\ Received
         /\ LastRequest.op = "Disconnect")
        => /\ phase' = "returned"
           /\ retErr' = "ProtoPreconnect"
           /\ sent' = sent ]_vars

\* ---------------------------------------------- connector: claim C31

\* C31: the connector's mutex is not held while a Connect waits for its
\* session-opening exchange: a goroutine that has arrived at the Lock of
\* a Connect, Discover or Close while another is opening its session
\* finds the mutex free.
C31_SessionOpenDoesNotBlock ==
    \A g, h \in Goroutines :
        (pc[g] = "ConnectSession" /\ pc[h] \in DOMAIN AfterLock)
            => mu = Unlocked

\* --------------------------------------------- controller: claim C32

\* C32: the provider's connector accepts a Connect for an object of every
\* kind Setup has started a controller for, the kinds that only Discover
\* named included: the kind check of Connect does not reject it.
C32_StartedKindsAccepted ==
    \A i \in DOMAIN started :
        gvkMap = {} \/ ResourceTypeToGVK(started[i].type) \in gvkMap

\* ------------------------------------------------- server: claim C33

\* The bound client's method was called in this step and returned an
\* error.
ClientCallFailed ==
    /\ Len(calls') = Len(calls) + 1
    /\ calls'[Len(calls')].failed

\* C33: when the bound external client's Observe, Create, Update or Delete
\* returns an error, the Session handler returns that error, sends no
\* response for the request, and the client's Disconnect has been called,
\* once, by the time the handler has returned.
C33_ClientErrorEndsSession ==
    [][ ClientCallFailed
        => /\ phase' = "returned"
           /\ retErr' = "HandlerError"
           /\ sent' = sent
           /\ externalClient' = externalClient
           /\ clients'[externalClient].closed
                = clients[externalClient].closed + 1 ]_vars

\* A session bound to a Widget client ended when the client's Update
\* failed: the only response sent is the Connect's, the client is closed.
C33_Witness ==
    /\ phase = "returned"
    /\ retErr = "HandlerError"
    /\ Len(recvd) = 2
    /\ recvd[2].op = "Update"
    /\ sent = <<"Connect">>
    /\ calls # <<>> /\ calls[Len(calls)].failed
    /\ clients[externalClient].closed = 1

\* ------------------------------------------------- server: claim C34

\* C34: every read of the handlers map is made with the registry's read
\* lock held and the map is assigned to only with its write lock held, so
\* that no read runs into an assignment under way: a lookup finds the
\* complete entry or none.
C34_RegistryReadsLocked ==
    /\ \A i \in DOMAIN lookups : lookups[i].locked /\ ~lookups[i].torn
    /\ mapWriting # NoKind => regMu.writer = Registrar
\* ----------------------------------- caching legacy server: claim C35

C36_EphemeralClientReleased ==
    /\ [](\A c \in DOMAIN ephemeral : ephemeral[c].closed = 1)
    /\ [][ nUnaryCalls' > nUnaryCalls
           => /\ lastUnary'.client # Nil
                  <=> Len(ephemeral') = Len(ephemeral) + 1
              /\ lastUnary'.client # Nil
                  => /\ lastUnary'.client = Len(ephemeral')
                     /\ ephemeral'[Len(ephemeral')].closed = 1
              /\ \A c \in DOMAIN ephemeral : ephemeral'[c] = ephemeral[c]
       ]_vars

\* A Delete whose client returned an error has released its client.
C36_Witness ==
    /\ lastUnary = UnaryCall("Delete", "Widget", 1, "HandlerError")
    /\ ephemeral = <<[kind |-> "Widget", method |-> "Delete", closed |-> 1]>>

\* ------------------------------------------------ server: claim C37

\* Shutdown is complete: GracefulStop has returned and no Session call is
\* pending, each session that had an external client having closed it.
ShutdownComplete ==
    /\ grpcServer = "stopped"
    /\ \A s \in StreamIds :
           /\ streams[s].at # "recv"
           /\ streams[s].connected => streams[s].closed = 1

\* C37: once the context given to ProviderBuilder.Start is cancelled,
\* shutdown eventually completes, every session in flight finishing or
\* being cancelled with its external client closed.
C37_ShutdownCompletes == (startCtx = "cancelled") ~> ShutdownComplete

\* -------------------------------------------- controller: claim C38

\* C38: whatever Start and Stop calls were made, at most one registration
\* of the source is live on the informer, and none is once the source
\* holds no registration (after a successful Stop, or when no Start has
\* succeeded), so that a further Stop removes nothing.
C38_AtMostOneRegistration ==
    /\ informerRegs <= 1
    /\ reg = NoRegistration => informerRegs = 0

\* ------------------------------------------------ client: claim C39

\* A Connect or a CRUD call on a session returns in this step.
ExchangeCallReturns ==
    /\ nCalls' > nCalls
    /\ lastCall'.api \in {"Connect"} \cup CrudOps

C40_KindsSetExclusive ==
    /\ \A w \in Callers : ~connPc[w].raced
    /\ \A n \in DOMAIN checks : ~checks[n].raced

====
